---- MODULE Spec2Model ----
(***************************************************************************)
(* Session state and phase state machine of the ITBP agents                *)
(* (src/v1/agents/itbp_agent/tools/memory.py), modelled as a state         *)
(* machine over the ADK session-state dictionary.                          *)
(***************************************************************************)
EXTENDS Integers, Sequences, FiniteSets, TLC

(***************************************************************************)
(* Keys of the session state (shared_libraries/constants.py).              *)
(***************************************************************************)
SYSTEM_TIME == "_time"
ITBP_INITIALIZED == "_itbp_initialized"
CURRENT_PHASE == "current_phase"
PENDING_USER_ACTION == "pending_user_action"
PHASE_HISTORY == "phase_history"
PRD_MD == "prd_md"
USER_FEEDBACK_CONTENT == "user_feedback_content"
METADATA == "_metadata"

(***************************************************************************)
(* The closed set of workflow phases (shared_libraries/types.py), in the   *)
(* order of the enum.                                                      *)
(***************************************************************************)
PhaseOrder ==
  << "START", "GET_IDEA", "ANALYST_BRAINSTORM", "ANALYST_RESEARCH_PROMPT_REVIEW",
     "ANALYST_RESEARCH", "ANALYST_BRIEF", "PM_DEFINE", "ARCHITECT_DESIGN",
     "POSM_VALIDATE", "POSM_STORIES", "FINISHED" >>

Phase == { PhaseOrder[i] : i \in 1..Len(PhaseOrder) }

(***************************************************************************)
(* Bounds of the model.                                                    *)
(***************************************************************************)
\* number of leading phases of the enum offered as arguments (FINISHED is always offered)
NumPhases == 2
\* number of tool calls made in one session
MaxCalls == 3

(***************************************************************************)
(* Python values.  Every value is a tagged record so that a string, a      *)
(* list, None and a bool stay distinct and comparable:                     *)
(*   t = "str"  : the string s                                             *)
(*   t = "list" : the list l (of strings)                                  *)
(*   t = "none" : None                                                     *)
(*   t = "bool" : True                                                     *)
(*   t = "dict" : the _metadata dictionary created at time s               *)
(***************************************************************************)
Str(x) == [t |-> "str", s |-> x, l |-> <<>>]
List(q) == [t |-> "list", s |-> "", l |-> q]
None == [t |-> "none", s |-> "", l |-> <<>>]
True == [t |-> "bool", s |-> "True", l |-> <<>>]
Dict(x) == [t |-> "dict", s |-> x, l |-> <<>>]

\* the empty dictionary
Empty == [k \in {} |-> None]

\* d[k] = v on a dictionary
Put(d, k, v) == [y \in (DOMAIN d) \cup {k} |-> IF y = k THEN v ELSE d[y]]

\* dict.update(src)
Update(d, src) == [y \in (DOMAIN d) \cup (DOMAIN src) |-> IF y \in DOMAIN src THEN src[y] ELSE d[y]]

\* the elements of a sequence
Range(q) == { q[i] : i \in 1..Len(q) }

(***************************************************************************)
(* Inputs.                                                                 *)
(***************************************************************************)
\* phase arguments given to the tools: valid phases and one string outside the enum
PhaseArgs == { PhaseOrder[i] : i \in 1..NumPhases } \cup {"FINISHED"}
InvalidPhase == "NOT_A_PHASE"
PhaseStrings == PhaseArgs \cup {InvalidPhase}

\* pending_action arguments of update_phase: omitted (None) or provided
PendingArgs == { None, Str("REVIEW_PRD"), Str("REVIEW_ARCHITECTURE") }

\* readings of the clock
Times == { "t1", "t2" }

\* the "state" object of the configuration file: the defaults of a session
NoDefaults == Empty
ArtifactDefaults == Put(Empty, PRD_MD, Str("prd-from-config"))
ResumeDefaults ==
  Put(Put(Put(Empty, CURRENT_PHASE, Str("GET_IDEA")),
          PHASE_HISTORY, List(<<"START">>)),
      PENDING_USER_ACTION, Str("PROVIDE_IDEA"))
DefaultsMaps == { NoDefaults, ArtifactDefaults, ResumeDefaults }

\* a configuration file: unreadable (open/json.load/["state"] raises) or its state object
Configs == { [readable |-> FALSE, state |-> Empty] }
           \cup { [readable |-> TRUE, state |-> d] : d \in DefaultsMaps }

\* the state a session is created with, before the first callback
PriorStates ==
  { Empty,
    Put(Put(Empty, PRD_MD, Str("prd-from-session")), CURRENT_PHASE, Str("PM_DEFINE")) }

(***************************************************************************)
(* State.                                                                  *)
(*   state  : the session-state dictionary (tool_context.state)            *)
(*   call   : the last operation, its arguments and the state before it    *)
(*   ret    : what the last operation returned or raised                   *)
(*   phases : log of the phases the session occupied since initialization  *)
(*   ncalls : number of tool calls made                                    *)
(*   listlog: the values appended to USER_FEEDBACK_CONTENT, and whether    *)
(*            the slot was written by memorize_list only                   *)
(***************************************************************************)
VARIABLES state, call, ret, phases, ncalls, listlog

sessionVars == << state, call, ret, phases, ncalls, listlog >>

(***************************************************************************)
(* State of the shared libraries (error_handling.py, error_middleware.py). *)
(*   rcfg       : the arguments of the retry decorator                     *)
(*   outs       : the outcomes of the decorated operation, one per         *)
(*                invocation made so far                                   *)
(*   blocking   : the run of retry_on_error's wrapper                      *)
(*   suspending : the run of async_retry_on_error's wrapper                *)
(*   response   : the agent response stored on the callback context        *)
(*   toolres    : what the wrapped tool returned or raised                 *)
(*   logged     : the error record handle_tool_errors logged last          *)
(*   degraded   : the last call through the graceful-degradation wrappers  *)
(***************************************************************************)
VARIABLES rcfg, outs, blocking, suspending, response, toolres, logged, degraded

retryVars == << rcfg, outs, blocking, suspending >>

middlewareVars == << response, toolres, logged, degraded >>

(***************************************************************************)
(* State of the research tool (deep_research.py).                          *)
(*   search_cache : the module's SearchCache: _cache, and _timestamps as   *)
(*                  the pairs (key, time) in the dictionary's order        *)
(*   clock        : time.time()                                            *)
(*   cacheop      : the last call of SearchCache.get or SearchCache.set:   *)
(*                  whether the key was held and the cache full before it, *)
(*                  the age of the entry, the entries it removed           *)
(*   written      : for each key held, the value and the time of the set   *)
(*                  that stored it, the topic and number of the tool call  *)
(*                  that made the set, and whether a get has returned it   *)
(*   env          : the environment variables that are set                 *)
(*   research     : the position of the research tool's current call       *)
(*   sessions     : for each session that shares the cache, the position of *)
(*                  its call of the research tool                          *)
(***************************************************************************)
VARIABLES search_cache, clock, cacheop, written, env, research, sessions

cacheVars == << search_cache, clock, cacheop, written >>

researchVars == << search_cache, clock, cacheop, written, env, research, sessions >>

libVars == << rcfg, outs, blocking, suspending, response, toolres, logged, degraded,
              search_cache, clock, cacheop, written, env, research, sessions >>

vars == << state, call, ret, phases, ncalls, listlog,
           rcfg, outs, blocking, suspending, response, toolres, logged, degraded,
           search_cache, clock, cacheop, written, env, research, sessions >>

\* a record of one operation
Call(op, a1, a2, src, pre) == [op |-> op, a1 |-> a1, a2 |-> a2, src |-> src, pre |-> pre]

\* an outcome: the raised exception class ("" when none) and the returned status
Returned(msg) == [exc |-> "", msg |-> msg]
Raised(e) == [exc |-> e, msg |-> <<>>]

(***************************************************************************)
(* Exceptions (error_handling.py).  An exception is a record: its class,   *)
(* its technical message, the attributes ITBPMethodError sets (empty for   *)
(* other classes) and id, which tells one raised object from another.      *)
(***************************************************************************)
\* the base class of each exception class
ClassParent ==
  [ c \in { "Exception", "CancelledError", "ITBPMethodError", "ConfigurationError",
            "NetworkError", "StateError", "ValidationError", "ExternalServiceError",
            "RateLimitError", "OSError", "ConnectionError", "TimeoutError",
            "PermissionError", "FileNotFoundError", "ValueError", "TypeError",
            "RuntimeError", "AttributeError", "LookupError", "KeyError",
            "ImportError", "ModuleNotFoundError" } |->
      CASE c \in {"Exception", "CancelledError"} -> "BaseException"
        [] c \in {"ConfigurationError", "NetworkError", "StateError", "ValidationError",
                  "ExternalServiceError"} -> "ITBPMethodError"
        [] c = "RateLimitError" -> "ExternalServiceError"
        [] c \in {"ConnectionError", "TimeoutError", "PermissionError", "FileNotFoundError"}
             -> "OSError"
        [] c = "KeyError" -> "LookupError"
        [] c = "ModuleNotFoundError" -> "ImportError"
        [] OTHER -> "Exception" ]

\* the classes an object of class c is an instance of
RECURSIVE Ancestors(_)
Ancestors(c) == IF c \in DOMAIN ClassParent THEN {c} \cup Ancestors(ClassParent[c]) ELSE {c}

\* variant: every exception matches every except clause
IsInstance_AnyClass(e, classes) == TRUE

\* isinstance(e, classes)
IsInstance(e, classes) == Ancestors(e.kind) \cap classes # {}

\* ITBPMethodError._get_default_user_message
DefaultUserMessage(category) ==
  CASE category = "CONFIGURATION" -> "A configuration error occurred. Please check your settings."
    [] category = "NETWORK" -> "A network error occurred. Please check your connection and try again."
    [] category = "STATE" -> "A state management error occurred. Your session may need to be restarted."
    [] category = "VALIDATION" -> "A validation error occurred. Please check your inputs."
    [] category = "EXTERNAL_SERVICE" -> "An external service error occurred. The service may be unavailable."
    [] category = "INTERNAL" -> "An internal error occurred. Please try again later."
    [] category = "SECURITY" -> "A security error occurred. Please check your credentials."
    [] category = "USER_INPUT" -> "An input error occurred. Please check your input and try again."
    [] category = "RESOURCE" -> "A resource error occurred. The requested resource may not be available."
    [] category = "UNKNOWN" -> "An unexpected error occurred. Please try again later."
    [] OTHER -> "An error occurred"

\* the category and retry policy the constructor of an ITBP class passes on
KindCategory(kind) ==
  CASE kind = "ConfigurationError" -> "CONFIGURATION"
    [] kind = "NetworkError" -> "NETWORK"
    [] kind = "StateError" -> "STATE"
    [] kind = "ValidationError" -> "VALIDATION"
    [] kind \in {"ExternalServiceError", "RateLimitError"} -> "EXTERNAL_SERVICE"
    [] OTHER -> "UNKNOWN"

KindPolicy(kind) ==
  IF kind \in {"NetworkError", "ExternalServiceError", "RateLimitError"}
  THEN "EXPONENTIAL_BACKOFF" ELSE "NO_RETRY"

\* kind(message, user_message = user), user = "" when not given; the id-th object raised
NewError(kind, message, user, id) ==
  IF "ITBPMethodError" \in Ancestors(kind)
  THEN LET given == IF kind = "RateLimitError" /\ user = ""
                    THEN "Rate limit reached. Please try again later." ELSE user
       IN  [ kind |-> kind, msg |-> message, category |-> KindCategory(kind),
             policy |-> KindPolicy(kind),
             user_message |-> IF given # "" THEN given
                              ELSE DefaultUserMessage(KindCategory(kind)),
             id |-> id ]
  ELSE [ kind |-> kind, msg |-> message, category |-> "", policy |-> "",
         user_message |-> "", id |-> id ]

\* no exception
NoError == [ kind |-> "", msg |-> "", category |-> "", policy |-> "", user_message |-> "", id |-> 0 ]

(***************************************************************************)
(* The retry decorators: their arguments and the position of a run.        *)
(***************************************************************************)
RetryPolicy == { "NO_RETRY", "IMMEDIATE", "EXPONENTIAL_BACKOFF", "LINEAR_BACKOFF", "CONSTANT_DELAY" }

\* largest max_retries given to the decorators
MaxRetries == 5

\* (base_delay, max_delay) pairs, in seconds
DelayArgs == { <<1, 60>>, <<1, 10>>, <<3, 10>> }

\* retry_exceptions: the default, and the classes the research tool names
RetryExceptionArgs == { {"Exception"}, {"ExternalServiceError", "ConnectionError", "TimeoutError"} }

RetryConfig(mr, classes, policy, base, max) ==
  [ max_retries |-> mr, retry_exceptions |-> classes, retry_policy |-> policy,
    base_delay |-> base, max_delay |-> max ]

RetryConfigs ==
  { RetryConfig(mr, cl, pol, d[1], d[2]) :
      mr \in (-1)..MaxRetries, cl \in RetryExceptionArgs, pol \in RetryPolicy, d \in DelayArgs }

\* the defaults of the decorators
DefaultRetryConfig == RetryConfig(3, {"Exception"}, "EXPONENTIAL_BACKOFF", 1, 60)

\* how a run ended: not yet, returned the value of invocation n, returned None, or raised
NoResult == [ how |-> "running", n |-> 0, exc |-> NoError ]
ReturnedValue(n) == [ how |-> "returned", n |-> n, exc |-> NoError ]
ReturnedNone == [ how |-> "returned None", n |-> 0, exc |-> NoError ]
RaisedError(e) == [ how |-> "raised", n |-> 0, exc |-> e ]

\* a run at the head of the loop, before the first invocation
\* cancelled tells at which await the run's task was cancelled ("" when it was not)
RunStart ==
  [ pc |-> "loop", attempt |-> 0, last_exception |-> NoError, invocations |-> 0,
    delays |-> <<>>, result |-> NoResult, cancelled |-> "" ]

\* the outcome of invocation n of the operation: a value, or an exception
Success(n) == [ ok |-> TRUE, n |-> n, exc |-> NoError ]
Failure(kind, n) == [ ok |-> FALSE, n |-> n, exc |-> NewError(kind, "technical message", "", n) ]

\* the classes the operation raises
OperationErrors == { "RateLimitError", "ValidationError" }

\* ExternalServiceError(message, retry_policy = retry_policy), the id-th object raised
ExternalServiceError(message, retry_policy, id) ==
  [ NewError("ExternalServiceError", message, "", id) EXCEPT !.policy = retry_policy ]

\* the operation fails and tells its caller not to retry
FailureNoRetry(n) ==
  [ ok |-> FALSE, n |-> n, exc |-> ExternalServiceError("technical message", "NO_RETRY", n) ]

OperationOutcomes(n) ==
  { Success(n), FailureNoRetry(n) } \cup { Failure(k, n) : k \in OperationErrors }

\* no wrapped tool has been called; no agent response has been set
NoToolCall ==
  [ op |-> [ ok |-> TRUE, n |-> 0, exc |-> NoError ], propagated |-> "",
    value |-> [ success |-> TRUE, error |-> "", error_type |-> "", error_details |-> "",
                payload |-> 0 ] ]
NoResponse == <<>>

\* nothing has been logged; the degradation wrappers have not been called
NoLog == [ error_category |-> "", error |-> NoError ]
NoDegradedCall ==
  [ op |-> [ ok |-> TRUE, n |-> 0, exc |-> NoError ], fallback_value |-> "",
    blocking |-> [ propagated |-> "", from |-> "", n |-> 0, fallback |-> "" ],
    suspending |-> [ propagated |-> "", from |-> "", n |-> 0, fallback |-> "" ] ]

MiddlewareIdle ==
  /\ response = NoResponse
  /\ toolres = NoToolCall
  /\ logged = NoLog
  /\ degraded = NoDegradedCall

(***************************************************************************)
(* The research tool before its first call (deep_research.py).             *)
(***************************************************************************)
REQUIRED_ENV_VARS == { "TAVILY_API_KEY", "GOOGLE_API_KEY" }

\* a result dictionary {"result": ...}: the text names the topic, the summary and the
\* number of results shown; NoValue is None
ResultDict(kind, topic, summary, shown) ==
  [ kind |-> kind, topic |-> topic, summary |-> summary, shown |-> shown ]
NoValue == ResultDict("None", <<>>, "", 0)

\* SearchCache.__init__
SearchCache(max_size, ttl_seconds) ==
  [ _cache |-> <<>>, _timestamps |-> <<>>, _max_size |-> max_size,
    _ttl_seconds |-> ttl_seconds ]

\* (max_size, ttl_seconds) of the caches considered, in entries and seconds
SearchCacheArgs == { <<1, 1>>, <<2, 1>> }

NoCacheOp ==
  [ op |-> "none", key |-> <<>>, value |-> NoValue, ret |-> NoValue,
    held |-> FALSE, age |-> 0, full |-> FALSE, evicted |-> {} ]

\* no call of the tool is under way
NoResearch ==
  [ pc |-> "idle", n |-> 0, topic |-> [ isstr |-> FALSE, chars |-> <<>>, truthy |-> FALSE ],
    env |-> {}, got_at |-> 0, gets |-> 0, sets |-> 0, backend |-> 0, value |-> NoValue,
    hit |-> FALSE, responses |-> <<>> ]

\* number of sessions that call the research tool on the one shared cache
NumSessions == 2

\* a session that has not called the tool: outs and run are the outcomes and the
\* position of its retry wrapper, searched counts its invocations of the backend, and
\* failed tells whether the backend raised in one of them
NoSession ==
  [ pc |-> "idle", topic |-> [ isstr |-> FALSE, chars |-> <<>>, truthy |-> FALSE ],
    outs |-> <<>>, run |-> RunStart, searched |-> 0, failed |-> FALSE ]

NoSessions == [ s \in 1..NumSessions |-> NoSession ]

ResearchIdle ==
  /\ search_cache = SearchCache(2, 1)
  /\ clock = 0
  /\ cacheop = NoCacheOp
  /\ written = <<>>
  /\ env = REQUIRED_ENV_VARS
  /\ research = NoResearch
  /\ sessions = NoSessions

LibIdle ==
  /\ rcfg = DefaultRetryConfig
  /\ outs = <<>>
  /\ blocking = RunStart
  /\ suspending = RunStart
  /\ MiddlewareIdle
  /\ ResearchIdle

SessionStart ==
  /\ call = Call("none", "", None, Empty, Empty)
  /\ ret = Returned(<<>>)
  /\ phases = <<>>
  /\ ncalls = 0
  /\ listlog = [pure |-> TRUE, vals |-> <<>>]

Init ==
  /\ state \in PriorStates
  /\ SessionStart
  /\ LibIdle

(***************************************************************************)
(* _set_initial_states(source, target), with the clock reading now.        *)
(***************************************************************************)
FillIfAbsent(d, k, v) == IF k \in DOMAIN d THEN d ELSE Put(d, k, v)

\* variant: the defaults are applied again on an already initialized session
_set_initial_states_Reapplies(source, target, now) ==
  LET t1 == FillIfAbsent(target, SYSTEM_TIME, Str(now))
      t2 == Put(t1, ITBP_INITIALIZED, True)
      t3 == Update(t2, source)
      t4 == FillIfAbsent(t3, CURRENT_PHASE, Str("START"))
      t5 == FillIfAbsent(t4, PENDING_USER_ACTION, None)
      t6 == FillIfAbsent(t5, PHASE_HISTORY, List(<<>>))
  IN  FillIfAbsent(t6, METADATA, Dict(now))

\* variant: the first initialization sets the phase to START even when one was supplied
_set_initial_states_ResetsPhase(source, target, now) ==
  LET t1 == FillIfAbsent(target, SYSTEM_TIME, Str(now))
  IN  IF ITBP_INITIALIZED \notin DOMAIN t1
      THEN LET t2 == Put(t1, ITBP_INITIALIZED, True)
               t3 == Update(t2, source)
               t4 == Put(t3, CURRENT_PHASE, Str("START"))
               t5 == FillIfAbsent(t4, PENDING_USER_ACTION, None)
               t6 == FillIfAbsent(t5, PHASE_HISTORY, List(<<>>))
           IN  FillIfAbsent(t6, METADATA, Dict(now))
      ELSE t1

_set_initial_states(source, target, now) ==
  LET t1 == FillIfAbsent(target, SYSTEM_TIME, Str(now))
  IN  IF ITBP_INITIALIZED \notin DOMAIN t1
      THEN LET t2 == Put(t1, ITBP_INITIALIZED, True)
               t3 == Update(t2, source)
               t4 == FillIfAbsent(t3, CURRENT_PHASE, Str("START"))
               t5 == FillIfAbsent(t4, PENDING_USER_ACTION, None)
               t6 == FillIfAbsent(t5, PHASE_HISTORY, List(<<>>))
           IN  FillIfAbsent(t6, METADATA, Dict(now))
      ELSE t1

\* the phases a freshly initialized session has occupied: its history, then its phase
SeedPhases(st) ==
  (IF st[PHASE_HISTORY].t = "list" THEN st[PHASE_HISTORY].l ELSE <<>>)
    \o << st[CURRENT_PHASE].s >>

\* the value stored under k, or Absent
Absent == [t |-> "absent", s |-> "", l |-> <<>>]
Get(d, k) == IF k \in DOMAIN d THEN d[k] ELSE Absent

\* the log of the list slot after an operation that left the dictionary as st:
\* appended is TRUE for a memorize_list of value on the slot that returned
TrackList(appended, value, st) ==
  IF appended THEN [pure |-> listlog.pure, vals |-> Append(listlog.vals, value)]
  ELSE IF Get(st, USER_FEEDBACK_CONTENT) # Get(state, USER_FEEDBACK_CONTENT)
       THEN [pure |-> FALSE, vals |-> listlog.vals]
       ELSE listlog

(***************************************************************************)
(* _load_precreated_config: the before_agent_callback of the root agent.   *)
(***************************************************************************)
_load_precreated_config(cfg, now) ==
  /\ call' = Call("initialize", "", None, cfg.state, state)
  /\ IF cfg.readable
     THEN /\ state' = _set_initial_states(cfg.state, state, now)
          /\ ret' = Returned(<<>>)
          /\ phases' = IF ITBP_INITIALIZED \in DOMAIN state THEN phases ELSE SeedPhases(state')
     ELSE /\ ret' = Raised("FileNotFoundError")
          /\ UNCHANGED << state, phases >>
  /\ listlog' = TrackList(FALSE, "", state')
  /\ UNCHANGED ncalls
  /\ UNCHANGED libVars

LoadConfig == \E cfg \in Configs, now \in Times : _load_precreated_config(cfg, now)

(***************************************************************************)
(* memorize(key, value, tool_context).  The result is the new dictionary   *)
(* and what the call returned or raised.                                   *)
(***************************************************************************)
Outcome(st, r) == [st |-> st, ret |-> r]

\* Python's "sub in s" on strings.  The strings of this model are whole words, none of
\* which properly contains another, so containment is equality.
StrContains(sub, s) == sub = s

\* "x not in h" for the value h stored under PHASE_HISTORY: "ok" when x is not in h,
\* "in" when it is, or the exception the test raises
\* variant: only the last element of the list is compared
NotInTest_LastOnly(x, h) ==
  CASE h.t = "list" -> IF x.t = "str" /\ h.l # <<>> /\ x.s = h.l[Len(h.l)] THEN "in" ELSE "ok"
    [] h.t = "str"  -> IF x.t # "str" THEN "TypeError"
                       ELSE IF StrContains(x.s, h.s) THEN "in" ELSE "ok"
    [] h.t = "dict" -> "ok"
    [] OTHER        -> "TypeError"

NotInTest(x, h) ==
  CASE h.t = "list" -> IF x.t = "str" /\ x.s \in Range(h.l) THEN "in" ELSE "ok"
    [] h.t = "str"  -> IF x.t # "str" THEN "TypeError"
                       ELSE IF StrContains(x.s, h.s) THEN "in" ELSE "ok"
    [] h.t = "dict" -> "ok"
    [] OTHER        -> "TypeError"

\* h.append(x)
AppendTo(x, h) == List(Append(h.l, x.s))

\* variant: the phase is overwritten without recording the phase that is left
memorize_NoHistory(key, value, mem_dict) ==
  Outcome(Put(mem_dict, key, Str(value)), Returned(<<"Stored", key, value>>))

memorize(key, value, mem_dict) ==
  LET stored == Outcome(Put(mem_dict, key, Str(value)), Returned(<<"Stored", key, value>>))
  IN  IF key = CURRENT_PHASE
         /\ CURRENT_PHASE \in DOMAIN mem_dict
         /\ mem_dict[CURRENT_PHASE] # Str(value)
      THEN LET d1 == FillIfAbsent(mem_dict, PHASE_HISTORY, List(<<>>))
               cur == d1[CURRENT_PHASE]
               test == NotInTest(cur, d1[PHASE_HISTORY])
           IN  CASE test = "in" -> Outcome(Put(d1, key, Str(value)), stored.ret)
                 [] test = "ok" ->
                      IF d1[PHASE_HISTORY].t = "list"
                      THEN Outcome(Put(Put(d1, PHASE_HISTORY, AppendTo(cur, d1[PHASE_HISTORY])),
                                       key, Str(value)),
                                   stored.ret)
                      ELSE Outcome(d1, Raised("AttributeError"))
                 [] OTHER -> Outcome(d1, Raised(test))
      ELSE stored

(***************************************************************************)
(* update_phase(phase, pending_action, tool_context).                      *)
(***************************************************************************)
\* Python truthiness of an optional string
Truthy(v) == v.t = "str" /\ v.s # ""

\* variant: an omitted pending_action clears the pending user action
update_phase_ClearsPending(phase, pending_action, mem_dict) ==
  LET m1 == memorize(CURRENT_PHASE, phase, mem_dict)
  IN  IF m1.ret.exc # "" THEN m1
      ELSE LET m2 == IF pending_action # None
                     THEN memorize(PENDING_USER_ACTION, pending_action.s, m1.st)
                     ELSE Outcome(Put(m1.st, PENDING_USER_ACTION, None), m1.ret)
           IN  IF m2.ret.exc # "" THEN m2
               ELSE Outcome(m2.st,
                            Returned(<<"Transitioned to phase", phase,
                                       IF Truthy(pending_action) THEN pending_action.s ELSE "">>))

\* variant: FINISHED is terminal, a transition away from it is refused
update_phase_FinishedIsTerminal(phase, pending_action, mem_dict) ==
  IF CURRENT_PHASE \in DOMAIN mem_dict /\ mem_dict[CURRENT_PHASE] = Str("FINISHED")
     /\ phase # "FINISHED"
  THEN Outcome(mem_dict, Raised("ValidationError"))
  ELSE LET m1 == memorize(CURRENT_PHASE, phase, mem_dict)
       IN  IF m1.ret.exc # "" THEN m1
           ELSE LET m2 == IF pending_action # None
                          THEN memorize(PENDING_USER_ACTION, pending_action.s, m1.st)
                          ELSE m1
                IN  IF m2.ret.exc # "" THEN m2
                    ELSE Outcome(m2.st,
                                 Returned(<<"Transitioned to phase", phase,
                                            IF Truthy(pending_action) THEN pending_action.s ELSE "">>))

update_phase(phase, pending_action, mem_dict) ==
  LET m1 == memorize(CURRENT_PHASE, phase, mem_dict)
  IN  IF m1.ret.exc # "" THEN m1
      ELSE LET m2 == IF pending_action # None
                     THEN memorize(PENDING_USER_ACTION, pending_action.s, m1.st)
                     ELSE m1
           IN  IF m2.ret.exc # "" THEN m2
               ELSE Outcome(m2.st,
                            Returned(<<"Transitioned to phase", phase,
                                       IF Truthy(pending_action) THEN pending_action.s ELSE "">>))

(***************************************************************************)
(* Tool calls.  Tools run inside an agent run, which the root agent's      *)
(* before_agent_callback precedes, so the session is initialized.          *)
(***************************************************************************)
Initialized == ITBP_INITIALIZED \in DOMAIN state

\* the log of occupied phases after a call that left the dictionary as st
LogPhase(r, value) == IF r.ret.exc = "" THEN Append(phases, value) ELSE phases

Memorize(key, value, limit) ==
  /\ Initialized
  /\ ncalls < limit
  /\ LET r == memorize(key, value, state)
     IN  /\ state' = r.st
         /\ ret' = r.ret
         /\ phases' = IF key = CURRENT_PHASE THEN LogPhase(r, value) ELSE phases
  /\ call' = Call("memorize", key, Str(value), Empty, state)
  /\ listlog' = TrackList(FALSE, "", state')
  /\ ncalls' = ncalls + 1
  /\ UNCHANGED libVars

UpdatePhase(phase, pending_action, limit) ==
  /\ Initialized
  /\ ncalls < limit
  /\ LET r == update_phase(phase, pending_action, state)
     IN  /\ state' = r.st
         /\ ret' = r.ret
         /\ phases' = LogPhase(r, phase)
  /\ call' = Call("update_phase", phase, pending_action, Empty, state)
  /\ listlog' = TrackList(FALSE, "", state')
  /\ ncalls' = ncalls + 1
  /\ UNCHANGED libVars

(***************************************************************************)
(* The phase state machine: initialization, set(CURRENT_PHASE, p) and      *)
(* transition(p, a).                                                       *)
(***************************************************************************)
SetPhase == \E p \in PhaseStrings : Memorize(CURRENT_PHASE, p, MaxCalls)

Transition == \E p \in PhaseStrings, a \in PendingArgs : UpdatePhase(p, a, MaxCalls)

NextPhase == LoadConfig \/ SetPhase \/ Transition

SpecPhase == Init /\ [][NextPhase]_vars

(***************************************************************************)
(* The whole session state: memorize on any key, and update_phase.         *)
(***************************************************************************)
\* number of tool calls made in one session when every key may be written
MaxWrites == 2

\* the (key, value) arguments given to memorize
MemorizeArgs ==
  ({CURRENT_PHASE} \X PhaseStrings)
    \cup ({PENDING_USER_ACTION} \X {"REVIEW_PRD"})
    \cup ({PHASE_HISTORY} \X {"START", "notes"})
    \cup ({PRD_MD} \X {"prd-v1", "prd-v2"})

SetKey == \E kv \in MemorizeArgs : Memorize(kv[1], kv[2], MaxWrites)

TransitionAny == \E p \in PhaseStrings, a \in PendingArgs : UpdatePhase(p, a, MaxWrites)

(***************************************************************************)
(* memorize_list(key, value, tool_context) and forget(key, value,          *)
(* tool_context).                                                          *)
(***************************************************************************)
\* variant: the value is appended even when the list already holds it
memorize_list_AlwaysAppends(key, value, mem_dict) ==
  LET d1 == FillIfAbsent(mem_dict, key, List(<<>>))
  IN  IF d1[key].t = "list"
      THEN Outcome(Put(d1, key, AppendTo(Str(value), d1[key])), Returned(<<"Stored", key, value>>))
      ELSE Outcome(d1, Raised("AttributeError"))

memorize_list(key, value, mem_dict) ==
  LET d1 == FillIfAbsent(mem_dict, key, List(<<>>))
      test == NotInTest(Str(value), d1[key])
  IN  CASE test = "in" -> Outcome(d1, Returned(<<"Stored", key, value>>))
        [] test = "ok" ->
             IF d1[key].t = "list"
             THEN Outcome(Put(d1, key, AppendTo(Str(value), d1[key])),
                          Returned(<<"Stored", key, value>>))
             ELSE Outcome(d1, Raised("AttributeError"))
        [] OTHER -> Outcome(d1, Raised(test))

\* list.remove(v): the list without the first occurrence of v
RECURSIVE RemoveFirst(_, _)
RemoveFirst(q, v) ==
  IF q = <<>> THEN q
  ELSE IF q[1] = v THEN Tail(q)
       ELSE <<q[1]>> \o RemoveFirst(Tail(q), v)

\* del d[k]
Del(d, k) == [y \in (DOMAIN d) \ {k} |-> d[y]]

\* variant: a list emptied by the removal is dropped from the dictionary
forget_DropsEmptyKey(key, value, mem_dict) ==
  IF key \notin DOMAIN mem_dict THEN Outcome(mem_dict, Raised("KeyError"))
  ELSE LET d1 == IF mem_dict[key] = None THEN Put(mem_dict, key, List(<<>>)) ELSE mem_dict
           test == NotInTest(Str(value), d1[key])
       IN  CASE test = "ok" -> Outcome(d1, Returned(<<"Removed", key, value>>))
             [] test = "in" ->
                  IF d1[key].t = "list"
                  THEN Outcome(IF RemoveFirst(d1[key].l, value) = <<>> THEN Del(d1, key)
                               ELSE Put(d1, key, List(RemoveFirst(d1[key].l, value))),
                               Returned(<<"Removed", key, value>>))
                  ELSE Outcome(d1, Raised("AttributeError"))
             [] OTHER -> Outcome(d1, Raised(test))

forget(key, value, mem_dict) ==
  IF key \notin DOMAIN mem_dict THEN Outcome(mem_dict, Raised("KeyError"))
  ELSE LET d1 == IF mem_dict[key] = None THEN Put(mem_dict, key, List(<<>>)) ELSE mem_dict
           test == NotInTest(Str(value), d1[key])
       IN  CASE test = "ok" -> Outcome(d1, Returned(<<"Removed", key, value>>))
             [] test = "in" ->
                  IF d1[key].t = "list"
                  THEN Outcome(Put(d1, key, List(RemoveFirst(d1[key].l, value))),
                               Returned(<<"Removed", key, value>>))
                  ELSE Outcome(d1, Raised("AttributeError"))
             [] OTHER -> Outcome(d1, Raised(test))

MemorizeList(key, value, limit) ==
  /\ Initialized
  /\ ncalls < limit
  /\ LET r == memorize_list(key, value, state)
     IN  /\ state' = r.st
         /\ ret' = r.ret
         /\ listlog' = TrackList(key = USER_FEEDBACK_CONTENT /\ r.ret.exc = "", value, r.st)
  /\ call' = Call("memorize_list", key, Str(value), Empty, state)
  /\ ncalls' = ncalls + 1
  /\ UNCHANGED phases
  /\ UNCHANGED libVars

Forget(key, value, limit) ==
  /\ Initialized
  /\ ncalls < limit
  /\ LET r == forget(key, value, state)
     IN  /\ state' = r.st
         /\ ret' = r.ret
         /\ listlog' = TrackList(FALSE, "", r.st)
  /\ call' = Call("forget", key, Str(value), Empty, state)
  /\ ncalls' = ncalls + 1
  /\ UNCHANGED phases
  /\ UNCHANGED libVars

\* the (key, value) arguments given to memorize_list and forget
ListArgs ==
  ({USER_FEEDBACK_CONTENT} \X {"fb1", "fb2"}) \cup ({PRD_MD} \X {"fb1"})

ForgetArgs == ListArgs \cup ({PENDING_USER_ACTION} \X {"fb1"})

AppendToList == \E kv \in ListArgs : MemorizeList(kv[1], kv[2], MaxWrites)

RemoveFromList == \E kv \in ForgetArgs : Forget(kv[1], kv[2], MaxWrites)

Next == LoadConfig \/ SetKey \/ TransitionAny \/ AppendToList \/ RemoveFromList

Spec == Init /\ [][Next]_vars

(***************************************************************************)
(* retry_on_error and async_retry_on_error (error_handling.py).  The two   *)
(* wrappers are translated separately, each from its own lines.  A run     *)
(* takes one step per loop iteration: it invokes the operation and either  *)
(* ends or goes to sleep; a second step wakes it up.                       *)
(***************************************************************************)
Min(a, b) == IF a <= b THEN a ELSE b

\* variant: the exponent is the attempt number, not one less
retry_on_error_delay_DoublesEarly(retry_policy, attempt, base_delay, max_delay) ==
  CASE retry_policy = "NO_RETRY" -> [ brk |-> TRUE, delay |-> 0 ]
    [] retry_policy = "IMMEDIATE" -> [ brk |-> FALSE, delay |-> 0 ]
    [] retry_policy = "EXPONENTIAL_BACKOFF" ->
         [ brk |-> FALSE, delay |-> Min(base_delay * (2 ^ attempt), max_delay) ]
    [] retry_policy = "LINEAR_BACKOFF" ->
         [ brk |-> FALSE, delay |-> Min(base_delay * attempt, max_delay) ]
    [] retry_policy = "CONSTANT_DELAY" -> [ brk |-> FALSE, delay |-> base_delay ]
    [] OTHER -> [ brk |-> FALSE, delay |-> 0 ]

\* variant: NO_RETRY retries at once instead of leaving the loop
retry_on_error_delay_NoRetryRetries(retry_policy, attempt, base_delay, max_delay) ==
  CASE retry_policy = "NO_RETRY" -> [ brk |-> FALSE, delay |-> 0 ]
    [] retry_policy = "IMMEDIATE" -> [ brk |-> FALSE, delay |-> 0 ]
    [] retry_policy = "EXPONENTIAL_BACKOFF" ->
         [ brk |-> FALSE, delay |-> Min(base_delay * (2 ^ (attempt - 1)), max_delay) ]
    [] retry_policy = "LINEAR_BACKOFF" ->
         [ brk |-> FALSE, delay |-> Min(base_delay * attempt, max_delay) ]
    [] retry_policy = "CONSTANT_DELAY" -> [ brk |-> FALSE, delay |-> base_delay ]
    [] OTHER -> [ brk |-> FALSE, delay |-> 0 ]

\* the policy branch of the blocking wrapper: leave the loop, or the delay to sleep
retry_on_error_delay(retry_policy, attempt, base_delay, max_delay) ==
  CASE retry_policy = "NO_RETRY" -> [ brk |-> TRUE, delay |-> 0 ]
    [] retry_policy = "IMMEDIATE" -> [ brk |-> FALSE, delay |-> 0 ]
    [] retry_policy = "EXPONENTIAL_BACKOFF" ->
         [ brk |-> FALSE, delay |-> Min(base_delay * (2 ^ (attempt - 1)), max_delay) ]
    [] retry_policy = "LINEAR_BACKOFF" ->
         [ brk |-> FALSE, delay |-> Min(base_delay * attempt, max_delay) ]
    [] retry_policy = "CONSTANT_DELAY" -> [ brk |-> FALSE, delay |-> base_delay ]
    [] OTHER -> [ brk |-> FALSE, delay |-> 0 ]

\* variant: the first exception caught is the one remembered
retry_on_error_except_KeepsFirst(r, e) ==
  [ r EXCEPT !.attempt = @ + 1,
             !.last_exception = IF @ = NoError THEN e ELSE @ ]

\* the head of the except clause of the blocking wrapper
retry_on_error_except(r, e) ==
  [ r EXCEPT !.attempt = @ + 1, !.last_exception = e ]

\* variant: a run that caught nothing raises instead of returning None
retry_on_error_exit_RaisesWithoutError(r) ==
  IF r.last_exception # NoError
  THEN [ r EXCEPT !.pc = "done", !.result = RaisedError(r.last_exception) ]
  ELSE [ r EXCEPT !.pc = "done",
                  !.result = RaisedError(NewError("RuntimeError", "no attempt made", "", 0)) ]

\* after the loop of the blocking wrapper
retry_on_error_exit(r) ==
  IF r.last_exception # NoError
  THEN [ r EXCEPT !.pc = "done", !.result = RaisedError(r.last_exception) ]
  ELSE [ r EXCEPT !.pc = "done", !.result = ReturnedNone ]

\* one step of the blocking wrapper; results[n] is the outcome of invocation n
retry_on_error(r, cfg, results) ==
  CASE r.pc = "done" -> r
    [] r.pc = "sleep" -> [ r EXCEPT !.pc = "loop" ]
    [] OTHER ->
       IF r.attempt <= cfg.max_retries
       THEN LET n == r.invocations + 1
                o == results[n]
                called == [ r EXCEPT !.invocations = n ]
            IN  IF o.ok
                THEN [ called EXCEPT !.pc = "done", !.result = ReturnedValue(o.n) ]
                ELSE IF ~IsInstance(o.exc, cfg.retry_exceptions)
                THEN [ called EXCEPT !.pc = "done", !.result = RaisedError(o.exc) ]
                ELSE LET c == retry_on_error_except(called, o.exc)
                         d == retry_on_error_delay(cfg.retry_policy, c.attempt,
                                                   cfg.base_delay, cfg.max_delay)
                     IN  IF c.attempt > cfg.max_retries \/ d.brk
                         THEN retry_on_error_exit(c)
                         ELSE [ c EXCEPT !.delays = Append(@, d.delay), !.pc = "sleep" ]
       ELSE retry_on_error_exit(r)

\* variant: linear backoff counts from zero
async_retry_on_error_delay_LinearFromZero(retry_policy, attempt, base_delay, max_delay) ==
  CASE retry_policy = "NO_RETRY" -> [ brk |-> TRUE, delay |-> 0 ]
    [] retry_policy = "IMMEDIATE" -> [ brk |-> FALSE, delay |-> 0 ]
    [] retry_policy = "EXPONENTIAL_BACKOFF" ->
         [ brk |-> FALSE, delay |-> Min(base_delay * (2 ^ (attempt - 1)), max_delay) ]
    [] retry_policy = "LINEAR_BACKOFF" ->
         [ brk |-> FALSE, delay |-> Min(base_delay * (attempt - 1), max_delay) ]
    [] retry_policy = "CONSTANT_DELAY" -> [ brk |-> FALSE, delay |-> base_delay ]
    [] OTHER -> [ brk |-> FALSE, delay |-> 0 ]

\* the policy branch of the suspending wrapper
async_retry_on_error_delay(retry_policy, attempt, base_delay, max_delay) ==
  CASE retry_policy = "NO_RETRY" -> [ brk |-> TRUE, delay |-> 0 ]
    [] retry_policy = "IMMEDIATE" -> [ brk |-> FALSE, delay |-> 0 ]
    [] retry_policy = "EXPONENTIAL_BACKOFF" ->
         [ brk |-> FALSE, delay |-> Min(base_delay * (2 ^ (attempt - 1)), max_delay) ]
    [] retry_policy = "LINEAR_BACKOFF" ->
         [ brk |-> FALSE, delay |-> Min(base_delay * attempt, max_delay) ]
    [] retry_policy = "CONSTANT_DELAY" -> [ brk |-> FALSE, delay |-> base_delay ]
    [] OTHER -> [ brk |-> FALSE, delay |-> 0 ]

\* the head of the except clause of the suspending wrapper
async_retry_on_error_except(r, e) ==
  [ r EXCEPT !.attempt = @ + 1, !.last_exception = e ]

\* after the loop of the suspending wrapper
async_retry_on_error_exit(r) ==
  IF r.last_exception # NoError
  THEN [ r EXCEPT !.pc = "done", !.result = RaisedError(r.last_exception) ]
  ELSE [ r EXCEPT !.pc = "done", !.result = ReturnedNone ]

\* variant: a run that went to sleep never wakes up
async_retry_on_error_SleepsForever(r, cfg, results) ==
  CASE r.pc = "done" -> r
    [] r.pc = "sleep" -> r
    [] OTHER ->
       IF r.attempt <= cfg.max_retries
       THEN LET n == r.invocations + 1
                o == results[n]
                called == [ r EXCEPT !.invocations = n ]
            IN  IF o.ok
                THEN [ called EXCEPT !.pc = "done", !.result = ReturnedValue(o.n) ]
                ELSE IF ~IsInstance(o.exc, cfg.retry_exceptions)
                THEN [ called EXCEPT !.pc = "done", !.result = RaisedError(o.exc) ]
                ELSE LET c == async_retry_on_error_except(called, o.exc)
                         d == async_retry_on_error_delay(cfg.retry_policy, c.attempt,
                                                         cfg.base_delay, cfg.max_delay)
                     IN  IF c.attempt > cfg.max_retries \/ d.brk
                         THEN async_retry_on_error_exit(c)
                         ELSE [ c EXCEPT !.delays = Append(@, d.delay), !.pc = "sleep" ]
       ELSE async_retry_on_error_exit(r)

\* variant: the policy is the one the caught error carries, when it carries one
async_retry_on_error_AsksTheError(r, cfg, results) ==
  CASE r.pc = "done" -> r
    [] r.pc = "sleep" -> [ r EXCEPT !.pc = "loop" ]
    [] OTHER ->
       IF r.attempt <= cfg.max_retries
       THEN LET n == r.invocations + 1
                o == results[n]
                called == [ r EXCEPT !.invocations = n ]
            IN  IF o.ok
                THEN [ called EXCEPT !.pc = "done", !.result = ReturnedValue(o.n) ]
                ELSE IF ~IsInstance(o.exc, cfg.retry_exceptions)
                THEN [ called EXCEPT !.pc = "done", !.result = RaisedError(o.exc) ]
                ELSE LET c == async_retry_on_error_except(called, o.exc)
                         d == async_retry_on_error_delay(
                                IF o.exc.policy # "" THEN o.exc.policy ELSE cfg.retry_policy,
                                c.attempt, cfg.base_delay, cfg.max_delay)
                     IN  IF c.attempt > cfg.max_retries \/ d.brk
                         THEN async_retry_on_error_exit(c)
                         ELSE [ c EXCEPT !.delays = Append(@, d.delay), !.pc = "sleep" ]
       ELSE async_retry_on_error_exit(r)

\* one step of the suspending wrapper
async_retry_on_error(r, cfg, results) ==
  CASE r.pc = "done" -> r
    [] r.pc = "sleep" -> [ r EXCEPT !.pc = "loop" ]
    [] OTHER ->
       IF r.attempt <= cfg.max_retries
       THEN LET n == r.invocations + 1
                o == results[n]
                called == [ r EXCEPT !.invocations = n ]
            IN  IF o.ok
                THEN [ called EXCEPT !.pc = "done", !.result = ReturnedValue(o.n) ]
                ELSE IF ~IsInstance(o.exc, cfg.retry_exceptions)
                THEN [ called EXCEPT !.pc = "done", !.result = RaisedError(o.exc) ]
                ELSE LET c == async_retry_on_error_except(called, o.exc)
                         d == async_retry_on_error_delay(cfg.retry_policy, c.attempt,
                                                         cfg.base_delay, cfg.max_delay)
                     IN  IF c.attempt > cfg.max_retries \/ d.brk
                         THEN async_retry_on_error_exit(c)
                         ELSE [ c EXCEPT !.delays = Append(@, d.delay), !.pc = "sleep" ]
       ELSE async_retry_on_error_exit(r)

\* the run is about to invoke the operation for the first time since outs was extended
NeedsOutcome(r) ==
  r.pc = "loop" /\ r.attempt <= rcfg.max_retries /\ r.invocations = Len(outs)

\* both wrappers decorate the same operation: they see the same outcomes
Attempt ==
  /\ NeedsOutcome(blocking) \/ NeedsOutcome(suspending)
  /\ \E o \in OperationOutcomes(Len(outs) + 1) :
       /\ outs' = Append(outs, o)
       /\ blocking' = retry_on_error(blocking, rcfg, outs')
       /\ suspending' = async_retry_on_error(suspending, rcfg, outs')
  /\ UNCHANGED rcfg
  /\ UNCHANGED middlewareVars
  /\ UNCHANGED researchVars
  /\ UNCHANGED sessionVars

\* the wrappers wake from their sleep, or leave a loop that has nothing left to do
Resume ==
  /\ ~NeedsOutcome(blocking) /\ ~NeedsOutcome(suspending)
  /\ blocking.pc # "done" \/ suspending.pc # "done"
  /\ blocking' = retry_on_error(blocking, rcfg, outs)
  /\ suspending' = async_retry_on_error(suspending, rcfg, outs)
  /\ UNCHANGED << rcfg, outs >>
  /\ UNCHANGED middlewareVars
  /\ UNCHANGED researchVars
  /\ UNCHANGED sessionVars

InitRetry ==
  /\ state = Empty
  /\ SessionStart
  /\ rcfg \in RetryConfigs
  /\ outs = <<>>
  /\ blocking = RunStart
  /\ suspending = RunStart
  /\ MiddlewareIdle
  /\ ResearchIdle

NextRetry == Attempt \/ Resume

SpecRetry == InitRetry /\ [][NextRetry]_vars

\* the event loop and the operation make progress: a sleep ends, an invocation returns
SpecRetryFair == SpecRetry /\ WF_vars(NextRetry)

(***************************************************************************)
(* Cancellation of the task that runs the suspending wrapper.  The task is *)
(* cancelled at one of its two awaits: CancelledError is raised by         *)
(* "await func(...)" inside the try (error_handling.py:263), or by         *)
(* "await asyncio.sleep(delay)" inside the except clause (line 297), from  *)
(* where no handler of the wrapper can catch it.                           *)
(***************************************************************************)
Cancelled(n) == [ ok |-> FALSE, n |-> n, exc |-> NewError("CancelledError", "", "", n) ]

\* variant: a cancelled sleep ends like a sleep that ran out
cancelled_sleep_Swallowed(r, e) == [ r EXCEPT !.pc = "loop", !.cancelled = "sleep" ]

\* asyncio.sleep raises e in the except clause of the suspending wrapper
cancelled_sleep(r, e) ==
  [ r EXCEPT !.pc = "done", !.result = RaisedError(e), !.cancelled = "sleep" ]

\* the task is cancelled while it awaits the operation
CancelAwait ==
  /\ NeedsOutcome(suspending)
  /\ outs' = Append(outs, Cancelled(Len(outs) + 1))
  /\ blocking' = retry_on_error(blocking, rcfg, outs')
  /\ suspending' = [ async_retry_on_error(suspending, rcfg, outs') EXCEPT !.cancelled = "await" ]
  /\ UNCHANGED rcfg
  /\ UNCHANGED middlewareVars
  /\ UNCHANGED researchVars
  /\ UNCHANGED sessionVars

\* the task is cancelled while it sleeps between two invocations
CancelSleep ==
  /\ suspending.pc = "sleep"
  /\ suspending' = cancelled_sleep(suspending, Cancelled(0).exc)
  /\ UNCHANGED << rcfg, outs, blocking >>
  /\ UNCHANGED middlewareVars
  /\ UNCHANGED researchVars
  /\ UNCHANGED sessionVars

NextCancel == Attempt \/ Resume \/ CancelAwait \/ CancelSleep

SpecCancel == InitRetry /\ [][NextCancel]_vars

(***************************************************************************)
(* The error middleware (error_middleware.py): handle_tool_errors and      *)
(* handle_callback_errors, with create_user_error_message.                 *)
(***************************************************************************)
\* variant: an ITBP error's own user message is ignored
create_user_error_message_IgnoresUserMessage(exception) ==
  CASE IsInstance(exception, {"ConnectionError", "TimeoutError"}) ->
         "A network error occurred. Please check your connection and try again."
    [] IsInstance(exception, {"PermissionError"}) ->
         "You don't have permission to perform this action."
    [] IsInstance(exception, {"FileNotFoundError"}) -> "The requested file could not be found."
    [] IsInstance(exception, {"ValueError"}) ->
         "Invalid input provided. Please check your input and try again."
    [] IsInstance(exception, {"KeyError"}) ->
         "A required value is missing. Please check your input and try again."
    [] IsInstance(exception, {"TypeError"}) ->
         "An unexpected type error occurred. Please check your input and try again."
    [] OTHER -> "An unexpected error occurred. Please try again later."

\* variant: an exception of no listed class is shown with its technical message
create_user_error_message_ShowsTechnicalMessage(exception) ==
  IF IsInstance(exception, {"ITBPMethodError"}) /\ exception.user_message # ""
  THEN exception.user_message
  ELSE CASE IsInstance(exception, {"ConnectionError", "TimeoutError"}) ->
              "A network error occurred. Please check your connection and try again."
         [] IsInstance(exception, {"PermissionError"}) ->
              "You don't have permission to perform this action."
         [] IsInstance(exception, {"FileNotFoundError"}) ->
              "The requested file could not be found."
         [] IsInstance(exception, {"ValueError"}) ->
              "Invalid input provided. Please check your input and try again."
         [] IsInstance(exception, {"KeyError"}) ->
              "A required value is missing. Please check your input and try again."
         [] IsInstance(exception, {"TypeError"}) ->
              "An unexpected type error occurred. Please check your input and try again."
         [] OTHER -> exception.msg

create_user_error_message(exception) ==
  IF IsInstance(exception, {"ITBPMethodError"}) /\ exception.user_message # ""
  THEN exception.user_message
  ELSE CASE IsInstance(exception, {"ConnectionError", "TimeoutError"}) ->
              "A network error occurred. Please check your connection and try again."
         [] IsInstance(exception, {"PermissionError"}) ->
              "You don't have permission to perform this action."
         [] IsInstance(exception, {"FileNotFoundError"}) ->
              "The requested file could not be found."
         [] IsInstance(exception, {"ValueError"}) ->
              "Invalid input provided. Please check your input and try again."
         [] IsInstance(exception, {"KeyError"}) ->
              "A required value is missing. Please check your input and try again."
         [] IsInstance(exception, {"TypeError"}) ->
              "An unexpected type error occurred. Please check your input and try again."
         [] OTHER -> "An unexpected error occurred. Please try again later."

\* the technical messages and the explicit user messages ("" is none) of raised errors
TechnicalMessages == { "", "technical message", "other technical message" }
UserMessages == { "", "custom user message", "other user message" }

\* the exception objects a wrapped operation raises
RaisedErrors ==
  { NewError(k, m, IF "ITBPMethodError" \in Ancestors(k) THEN u ELSE "", 1) :
      k \in DOMAIN ClassParent, m \in TechnicalMessages, u \in UserMessages }

\* what a wrapped tool does: it returns its n-th result, or raises
ToolOutcomes ==
  { Success(1), Success(2) } \cup { [ ok |-> FALSE, n |-> 1, exc |-> e ] : e \in RaisedErrors }

\* a tool's own result, and the dictionary built at error_middleware.py:139-144
ToolValue(n) ==
  [ success |-> TRUE, error |-> "", error_type |-> "", error_details |-> "", payload |-> n ]
FailureObject(e) ==
  [ success |-> FALSE, error |-> create_user_error_message(e), error_type |-> e.kind,
    error_details |-> e.msg, payload |-> 0 ]

\* the end of a wrapped tool call: a returned value, or the class of a propagated exception
ToolResult(o, propagated, value) == [ op |-> o, propagated |-> propagated, value |-> value ]

\* variant: the failure is raised again after being logged
handle_tool_errors_Reraises(o) ==
  IF o.ok THEN ToolResult(o, "", ToolValue(o.n))
  ELSE ToolResult(o, o.exc.kind, ToolValue(0))

\* handle_tool_errors.wrapper around a tool whose body ends as o
handle_tool_errors(o) ==
  IF o.ok THEN ToolResult(o, "", ToolValue(o.n))
  ELSE IF IsInstance(o.exc, {"Exception"})
  THEN ToolResult(o, "", FailureObject(o.exc))
  ELSE ToolResult(o, o.exc.kind, ToolValue(0))

\* variant: a missing key is not taken for a validation problem
classify_exception_KeyErrorInternal(exception) ==
  IF IsInstance(exception, {"ITBPMethodError"}) THEN exception.category
  ELSE CASE IsInstance(exception, {"ConnectionError", "TimeoutError"}) -> "NETWORK"
         [] IsInstance(exception, {"ValueError", "TypeError"}) -> "VALIDATION"
         [] IsInstance(exception, {"FileNotFoundError", "PermissionError"}) -> "RESOURCE"
         [] IsInstance(exception, {"ImportError", "ModuleNotFoundError"}) -> "CONFIGURATION"
         [] OTHER -> "INTERNAL"

classify_exception(exception) ==
  IF IsInstance(exception, {"ITBPMethodError"}) THEN exception.category
  ELSE CASE IsInstance(exception, {"ConnectionError", "TimeoutError"}) -> "NETWORK"
         [] IsInstance(exception, {"ValueError", "TypeError", "KeyError"}) -> "VALIDATION"
         [] IsInstance(exception, {"FileNotFoundError", "PermissionError"}) -> "RESOURCE"
         [] IsInstance(exception, {"ImportError", "ModuleNotFoundError"}) -> "CONFIGURATION"
         [] OTHER -> "INTERNAL"

\* the record logger.error receives in the except branch of handle_tool_errors.wrapper
\* during one call: none when the tool returns or the exception is not caught
LogToolError(o) ==
  IF ~o.ok /\ IsInstance(o.exc, {"Exception"})
  THEN [ error_category |-> classify_exception(o.exc), error |-> o.exc ]
  ELSE NoLog

WrappedTool ==
  /\ \E o \in ToolOutcomes :
       /\ toolres' = handle_tool_errors(o)
       /\ logged' = LogToolError(o)
  /\ UNCHANGED retryVars
  /\ UNCHANGED << response, degraded >>
  /\ UNCHANGED researchVars
  /\ UNCHANGED sessionVars

\* fallback_value of the degradation decorators
FallbackValues == { "fallback", "other fallback" }

\* what a degradation wrapper ends with: func's n-th result, the fallback, or an
\* exception that went through
Degraded(propagated, from, n, fallback) ==
  [ propagated |-> propagated, from |-> from, n |-> n, fallback |-> fallback ]

\* variant: the fallback is returned whatever func did
with_graceful_degradation_AlwaysFallsBack(o, fallback_value) ==
  Degraded("", "fallback", 0, fallback_value)

\* with_graceful_degradation(fallback_value)(func)() where func ends as o
with_graceful_degradation(o, fallback_value) ==
  IF o.ok THEN Degraded("", "func", o.n, "")
  ELSE IF IsInstance(o.exc, {"Exception"}) THEN Degraded("", "fallback", 0, fallback_value)
  ELSE Degraded(o.exc.kind, "", 0, "")

\* await with_async_graceful_degradation(fallback_value)(func)() where func ends as o
with_async_graceful_degradation(o, fallback_value) ==
  IF o.ok THEN Degraded("", "func", o.n, "")
  ELSE IF IsInstance(o.exc, {"Exception"}) THEN Degraded("", "fallback", 0, fallback_value)
  ELSE Degraded(o.exc.kind, "", 0, "")

\* both wrappers around the same operation with the same fallback
WrappedWithFallback ==
  /\ \E o \in ToolOutcomes, fb \in FallbackValues :
       degraded' = [ op |-> o, fallback_value |-> fb,
                     blocking |-> with_graceful_degradation(o, fb),
                     suspending |-> with_async_graceful_degradation(o, fb) ]
  /\ UNCHANGED retryVars
  /\ UNCHANGED << response, toolres, logged >>
  /\ UNCHANGED researchVars
  /\ UNCHANGED sessionVars

InitTool ==
  /\ state = Empty
  /\ SessionStart
  /\ LibIdle

NextTool == WrappedTool

SpecTool == InitTool /\ [][NextTool]_vars

NextDegrade == WrappedWithFallback

SpecDegrade == InitTool /\ [][NextDegrade]_vars

\* the text handed to callback_context.set_agent_response
ErrorResponse(user_message) ==
  << "I encountered an issue while processing your request.", user_message,
     "Please try again or contact support if the issue persists." >>

\* the errors a callback body raises
CallbackErrors ==
  { NewError("ValidationError", "technical message", u, 1) : u \in {"", "custom user message"} }
    \cup { NewError(k, "technical message", "", 1) : k \in {"KeyError", "RuntimeError", "CancelledError"} }

\* a callback body: the transitions it makes, then the exception it raises (NoError: none)
CallbackBodies ==
  { [ write |-> w, exc |-> e ] :
      w \in { <<>> } \cup { << <<p, a>> >> : p \in PhaseArgs, a \in PendingArgs },
      e \in { NoError } \cup CallbackErrors }

\* await func(callback_context)
RunBody(body, st) ==
  IF body.write = <<>> THEN [ st |-> st, exc |-> body.exc, r |-> Outcome(st, Raised("none")) ]
  ELSE LET r == update_phase(body.write[1][1], body.write[1][2], st)
       IN  [ st |-> r.st,
             exc |-> IF r.ret.exc # "" THEN NewError(r.ret.exc, "", "", 0) ELSE body.exc,
             r |-> r ]

\* variant: the response is stored and the exception raised again
handle_callback_errors_Reraises(body, st, resp) ==
  LET b == RunBody(body, st)
  IN  IF b.exc = NoError THEN [ st |-> b.st, ret |-> Returned(<<>>), response |-> resp ]
      ELSE [ st |-> b.st, ret |-> Raised(b.exc.kind),
             response |-> ErrorResponse(create_user_error_message(b.exc)) ]

\* handle_callback_errors.wrapper on a context whose state is st and response resp
handle_callback_errors(body, st, resp) ==
  LET b == RunBody(body, st)
  IN  IF b.exc = NoError THEN [ st |-> b.st, ret |-> Returned(<<>>), response |-> resp ]
      ELSE IF IsInstance(b.exc, {"Exception"})
      THEN [ st |-> b.st, ret |-> Returned(<<>>),
             response |-> ErrorResponse(create_user_error_message(b.exc)) ]
      ELSE [ st |-> b.st, ret |-> Raised(b.exc.kind), response |-> resp ]

\* number of wrapped callbacks run in one session
MaxCallbacks == 1

WrappedCallback ==
  /\ Initialized
  /\ ncalls < MaxCallbacks
  /\ \E body \in CallbackBodies :
       LET b == RunBody(body, state)
           w == handle_callback_errors(body, state, response)
       IN  /\ state' = w.st
           /\ ret' = w.ret
           /\ response' = w.response
           /\ phases' = IF body.write = <<>> THEN phases ELSE LogPhase(b.r, body.write[1][1])
           /\ call' = Call("callback", b.exc.kind, Str(b.exc.user_message), Empty, state)
  /\ listlog' = TrackList(FALSE, "", state')
  /\ ncalls' = ncalls + 1
  /\ UNCHANGED retryVars
  /\ UNCHANGED << toolres, logged, degraded >>
  /\ UNCHANGED researchVars

NextCallback == LoadConfig \/ WrappedCallback

SpecCallback == Init /\ [][NextCallback]_vars

(***************************************************************************)
(* SearchCache (deep_research.py): a dictionary of results and a           *)
(* dictionary of the times they were stored.                               *)
(***************************************************************************)
\* the last reading of the clock
MaxClock == 3

\* self._timestamps.get(key, default)
RECURSIVE TimestampOf(_, _, _)
TimestampOf(timestamps, key, default) ==
  IF timestamps = <<>> THEN default
  ELSE IF Head(timestamps)[1] = key THEN Head(timestamps)[2]
  ELSE TimestampOf(Tail(timestamps), key, default)

TimestampKeys(timestamps) == { timestamps[i][1] : i \in 1..Len(timestamps) }

\* del self._timestamps[key]
RECURSIVE DelTimestamp(_, _)
DelTimestamp(timestamps, key) ==
  IF timestamps = <<>> THEN <<>>
  ELSE IF Head(timestamps)[1] = key THEN Tail(timestamps)
  ELSE << Head(timestamps) >> \o DelTimestamp(Tail(timestamps), key)

\* self._timestamps[key] = t: a key already held keeps its place in the dictionary
PutTimestamp(timestamps, key, t) ==
  IF key \in TimestampKeys(timestamps)
  THEN [ i \in 1..Len(timestamps) |->
           IF timestamps[i][1] = key THEN << key, t >> ELSE timestamps[i] ]
  ELSE Append(timestamps, << key, t >>)

\* min(self._timestamps, key=self._timestamps.get): the first key, in the dictionary's
\* order, whose time is the least
OldestKey(timestamps) ==
  LET i == CHOOSE i \in 1..Len(timestamps) :
             /\ \A j \in 1..Len(timestamps) : timestamps[i][2] <= timestamps[j][2]
             /\ \A j \in 1..(i - 1) : timestamps[j][2] # timestamps[i][2]
  IN  timestamps[i][1]

\* the end of a cache call: the cache after it, what it returned, the exception it raised
CacheResult(c, r, e) == [ cache |-> c, ret |-> r, exc |-> e ]

\* variant: a hit renews the entry's time
SearchCache_get_Refreshes(c, key, now) ==
  IF key \notin DOMAIN c._cache THEN CacheResult(c, NoValue, "")
  ELSE IF now - TimestampOf(c._timestamps, key, 0) > c._ttl_seconds
  THEN CacheResult([ c EXCEPT !._cache = Del(@, key),
                              !._timestamps = DelTimestamp(@, key) ], NoValue, "")
  ELSE CacheResult([ c EXCEPT !._timestamps = PutTimestamp(@, key, now) ], c._cache[key], "")

\* variant: an entry is dropped as soon as its age reaches the time to live
SearchCache_get_ExpiresEarly(c, key, now) ==
  IF key \notin DOMAIN c._cache THEN CacheResult(c, NoValue, "")
  ELSE IF now - TimestampOf(c._timestamps, key, 0) >= c._ttl_seconds
  THEN CacheResult([ c EXCEPT !._cache = Del(@, key),
                              !._timestamps = DelTimestamp(@, key) ], NoValue, "")
  ELSE CacheResult(c, c._cache[key], "")

\* variant: an expired entry leaves the value map only, its time stays
SearchCache_get_LeavesTimestamp(c, key, now) ==
  IF key \notin DOMAIN c._cache THEN CacheResult(c, NoValue, "")
  ELSE IF now - TimestampOf(c._timestamps, key, 0) > c._ttl_seconds
  THEN CacheResult([ c EXCEPT !._cache = Del(@, key) ], NoValue, "")
  ELSE CacheResult(c, c._cache[key], "")

\* await search_cache.get(key) at time now
SearchCache_get(c, key, now) ==
  IF key \notin DOMAIN c._cache THEN CacheResult(c, NoValue, "")
  ELSE IF now - TimestampOf(c._timestamps, key, 0) > c._ttl_seconds
  THEN IF key \in TimestampKeys(c._timestamps)
       THEN CacheResult([ c EXCEPT !._cache = Del(@, key),
                                   !._timestamps = DelTimestamp(@, key) ], NoValue, "")
       ELSE CacheResult([ c EXCEPT !._cache = Del(@, key) ], NoValue, "KeyError")
  ELSE CacheResult(c, c._cache[key], "")

\* variant: a full cache is not made smaller before the new entry goes in
SearchCache_set_NeverEvicts(c, key, value, now) ==
  CacheResult([ c EXCEPT !._cache = Put(@, key, value),
                         !._timestamps = PutTimestamp(@, key, now) ], NoValue, "")

\* variant: a key already held is overwritten in place, nothing is removed for it
SearchCache_set_OverwritesInPlace(c, key, value, now) ==
  LET full == Cardinality(DOMAIN c._cache) >= c._max_size /\ key \notin DOMAIN c._cache
      oldest_key == OldestKey(c._timestamps)
  IN  IF full /\ c._timestamps = <<>> THEN CacheResult(c, NoValue, "ValueError")
      ELSE IF full /\ oldest_key \notin DOMAIN c._cache THEN CacheResult(c, NoValue, "KeyError")
      ELSE LET c1 == IF full
                     THEN [ c EXCEPT !._cache = Del(@, oldest_key),
                                     !._timestamps = DelTimestamp(@, oldest_key) ]
                     ELSE c
           IN  CacheResult([ c1 EXCEPT !._cache = Put(@, key, value),
                                       !._timestamps = PutTimestamp(@, key, now) ],
                           NoValue, "")

\* await search_cache.set(key, value) at time now
SearchCache_set(c, key, value, now) ==
  LET full == Cardinality(DOMAIN c._cache) >= c._max_size
      oldest_key == OldestKey(c._timestamps)
  IN  IF full /\ c._timestamps = <<>> THEN CacheResult(c, NoValue, "ValueError")
      ELSE IF full /\ oldest_key \notin DOMAIN c._cache THEN CacheResult(c, NoValue, "KeyError")
      ELSE LET c1 == IF full
                     THEN [ c EXCEPT !._cache = Del(@, oldest_key),
                                     !._timestamps = DelTimestamp(@, oldest_key) ]
                     ELSE c
           IN  CacheResult([ c1 EXCEPT !._cache = Put(@, key, value),
                                       !._timestamps = PutTimestamp(@, key, now) ],
                           NoValue, "")

\* the keys and values given to the cache: normalized topics and result dictionaries
CacheKeys == { <<"a">>, <<"b">>, <<"a", "b">>, <<"a", " ", "b">> }
CacheValues ==
  { ResultDict("findings", <<>>, "summary", 1), ResultDict("no results", <<>>, "", 0) }

CacheOp(op, key, value, r) ==
  [ op |-> op, key |-> key, value |-> value, ret |-> r.ret,
    held |-> key \in DOMAIN search_cache._cache,
    age |-> IF key \in DOMAIN written THEN clock - written[key].at ELSE 0,
    full |-> Cardinality(DOMAIN search_cache._cache) = search_cache._max_size,
    evicted |-> { [ key |-> k, at |-> written[k].at, read |-> written[k].read ] :
                    k \in (DOMAIN written) \ (DOMAIN r.cache._cache) } ]

\* the entries held after a call, as the sets that stored them left them
Written(c, key, entry) ==
  [ k \in DOMAIN c._cache |-> IF k = key \/ k \notin DOMAIN written THEN entry ELSE written[k] ]

CacheGet(key) ==
  LET r == SearchCache_get(search_cache, key, clock)
  IN  /\ search_cache' = r.cache
      /\ cacheop' = CacheOp("get", key, NoValue, r)
      /\ written' = IF key \in DOMAIN written
                    THEN Written(r.cache, key, [ written[key] EXCEPT !.read = TRUE ])
                    ELSE Written(r.cache, key, [ value |-> NoValue, at |-> 0, read |-> FALSE,
                                                 by |-> <<>>, call |-> 0 ])
      /\ UNCHANGED clock

\* by names the topic of the tool call that stores the entry and call its number
\* (the key and 0 for a set made on the cache directly or by one of several sessions)
CacheSet(key, value, by, call_no) ==
  LET r == SearchCache_set(search_cache, key, value, clock)
  IN  /\ search_cache' = r.cache
      /\ cacheop' = CacheOp("set", key, value, r)
      /\ written' = Written(r.cache, key, [ value |-> value, at |-> clock, read |-> FALSE,
                                            by |-> by, call |-> call_no ])
      /\ UNCHANGED clock

\* time passes
Tick ==
  /\ clock < MaxClock
  /\ clock' = clock + 1
  /\ UNCHANGED << search_cache, cacheop, written, env, research, sessions >>
  /\ UNCHANGED retryVars
  /\ UNCHANGED middlewareVars
  /\ UNCHANGED sessionVars

GetEntry ==
  /\ \E key \in CacheKeys : CacheGet(key)
  /\ UNCHANGED << env, research, sessions >>
  /\ UNCHANGED retryVars
  /\ UNCHANGED middlewareVars
  /\ UNCHANGED sessionVars

SetEntry ==
  /\ \E key \in CacheKeys, value \in CacheValues : CacheSet(key, value, key, 0)
  /\ UNCHANGED << env, research, sessions >>
  /\ UNCHANGED retryVars
  /\ UNCHANGED middlewareVars
  /\ UNCHANGED sessionVars

NextCache == GetEntry \/ SetEntry \/ Tick

InitCache ==
  /\ state = Empty
  /\ SessionStart
  /\ rcfg = DefaultRetryConfig
  /\ outs = <<>>
  /\ blocking = RunStart
  /\ suspending = RunStart
  /\ MiddlewareIdle
  /\ search_cache \in { SearchCache(a[1], a[2]) : a \in SearchCacheArgs }
  /\ clock = 0
  /\ cacheop = NoCacheOp
  /\ written = <<>>
  /\ env = REQUIRED_ENV_VARS
  /\ research = NoResearch
  /\ sessions = NoSessions

SpecCache == InitCache /\ [][NextCache]_vars

(***************************************************************************)
(* The research tool (deep_research.py:171-296): the body of               *)
(* _deep_research_tool_func under async_retry_on_error(max_retries = 2,    *)
(* EXPONENTIAL_BACKOFF, retry_exceptions = (ExternalServiceError,          *)
(* ConnectionError, TimeoutError)), log_async_function_call, which logs    *)
(* and raises again, and handle_tool_errors.  The body awaits the search   *)
(* backend, so one invocation is two steps: up to the backend call, and    *)
(* from the backend's answer on.                                           *)
(***************************************************************************)
MaxResearchCalls == 2

\* a topic argument: whether it is a str, its characters, and its truth value
TopicStr(chars) == [ isstr |-> TRUE, chars |-> chars, truthy |-> chars # <<>> ]
TopicNone == [ isstr |-> FALSE, chars |-> <<>>, truthy |-> FALSE ]
TopicInt == [ isstr |-> FALSE, chars |-> <<>>, truthy |-> TRUE ]

TopicArgs ==
  { TopicStr(<<"a">>), TopicStr(<<"A", " ">>), TopicStr(<<" ", "a">>), TopicStr(<<"b">>),
    TopicStr(<<>>), TopicStr(<<" ">>), TopicNone, TopicInt }

\* str.lower and str.strip on the characters of the topics
Lower(ch) == CASE ch = "A" -> "a" [] ch = "B" -> "b" [] OTHER -> ch

lower(chars) == [ i \in 1..Len(chars) |-> Lower(chars[i]) ]

RECURSIVE strip(_)
strip(chars) ==
  IF chars = <<>> THEN chars
  ELSE IF Head(chars) = " " THEN strip(Tail(chars))
  ELSE IF chars[Len(chars)] = " " THEN strip(SubSeq(chars, 1, Len(chars) - 1))
  ELSE chars

\* variant: a topic of blanks only passes the check
ValidTopic_AcceptsBlank(topic) == topic.truthy /\ topic.isstr

\* the negation of the condition at deep_research.py:192
ValidTopic(topic) ==
  ~ (~topic.truthy \/ ~topic.isstr \/ Len(strip(topic.chars)) = 0)

\* variant: the key keeps the blanks around the topic
normalized_topic_NoStrip(topic) == lower(topic.chars)

\* deep_research.py:197
normalized_topic(topic) == strip(lower(topic.chars))

\* _validate_env_vars: the class it raises, "" when every variable is set
_validate_env_vars(e) ==
  IF REQUIRED_ENV_VARS \ e # {} THEN "ConfigurationError" ELSE ""

\* the environments of the runs: complete, or without the search key
Environments == { REQUIRED_ENV_VARS, REQUIRED_ENV_VARS \ {"TAVILY_API_KEY"} }

\* what the search backend does: a response with a number of results and an answer
\* ("absent" when the response has no "answer" key), or an exception with its message
BackendResponse(results, answer) ==
  [ raised |-> "", msg |-> <<>>, results |-> results, answer |-> answer ]
BackendRaise(kind, msg) == [ raised |-> kind, msg |-> msg, results |-> 0, answer |-> "absent" ]

BackendOutcomes ==
  { BackendResponse(0, "absent"), BackendResponse(0, "answer"), BackendResponse(2, "answer"),
    BackendRaise("ConnectionError", <<"refused">>), BackendRaise("TimeoutError", <<"timed", "out">>),
    BackendRaise("RuntimeError", <<"boom">>),
    BackendRaise("RuntimeError", <<"Invalid", "API key">>),
    BackendRaise("RuntimeError", <<"Rate limit", "exceeded">>) }

\* str.lower on the words of a message; "sub in message" for the two tests of the body
LowerWord(w) ==
  CASE w = "Rate limit" -> "rate limit" [] w = "API key" -> "api key"
    [] w = "Invalid" -> "invalid" [] OTHER -> w

InMessage(sub, msg) == \E i \in 1..Len(msg) : msg[i] = sub

\* the outcome of invocation n of the body: what it returns (value) or raises (exc)
BodyReturn(n, value) == [ ok |-> TRUE, n |-> n, exc |-> NoError, value |-> value ]
BodyRaise(n, kind, msg) ==
  [ ok |-> FALSE, n |-> n, exc |-> NewError(kind, msg, "", n), value |-> NoValue ]

\* deep_research.py:192-211, invocation n of the body up to the backend call: the
\* outcome when it ends before the call (called = FALSE), the key, and what the get did
\* (got = FALSE when the cache was not read)
body_before_search(topic, c, now, e, n) ==
  IF ~ValidTopic(topic)
  THEN [ called |-> FALSE, got |-> FALSE, key |-> <<>>, r |-> CacheResult(c, NoValue, {}),
         o |-> BodyRaise(n, "ValidationError", "Please provide a valid research topic") ]
  ELSE LET key == normalized_topic(topic)
           r == SearchCache_get(c, key, now)
       IN  IF r.ret # NoValue
           THEN [ called |-> FALSE, got |-> TRUE, key |-> key, r |-> r,
                  o |-> BodyReturn(n, r.ret) ]
           ELSE IF _validate_env_vars(e) # ""
           THEN [ called |-> FALSE, got |-> TRUE, key |-> key, r |-> r,
                  o |-> BodyRaise(n, _validate_env_vars(e),
                                   "Missing required environment variables") ]
           ELSE [ called |-> TRUE, got |-> TRUE, key |-> key, r |-> r,
                  o |-> BodyReturn(n, NoValue) ]

\* variant: a search that finds nothing is reported as a failure of the service
body_after_search_EmptyFails(b, key, n) ==
  IF b.raised = "" /\ b.results = 0 /\ b.answer = "absent"
  THEN BodyRaise(n, "ExternalServiceError", "Error during research")
  ELSE IF b.raised = ""
  THEN BodyReturn(n, ResultDict("findings", key,
                                IF b.answer = "absent" THEN "No summary available from search."
                                ELSE b.answer, Min(b.results, 5)))
  ELSE BodyRaise(n, "ExternalServiceError", "Error during research")

\* deep_research.py:234-296, the body from the backend's outcome b on; a returned
\* value is stored in the cache before it is returned
body_after_search(b, key, n) ==
  IF b.raised = ""
  THEN LET summary == IF b.answer = "absent" THEN "No summary available from search."
                      ELSE b.answer
       IN  IF b.results = 0 /\ summary = "No summary available from search."
           THEN BodyReturn(n, ResultDict("no results", key, "", 0))
           ELSE BodyReturn(n, ResultDict("findings", key, summary, Min(b.results, 5)))
  ELSE IF "ConnectionError" \in Ancestors(b.raised)
  THEN BodyRaise(n, "NetworkError", "Connection error during research")
  ELSE IF "TimeoutError" \in Ancestors(b.raised)
  THEN BodyRaise(n, "NetworkError", "Timeout error during research")
  ELSE IF InMessage("API key", b.msg)
  THEN BodyRaise(n, "ConfigurationError", "There was an issue with the API key")
  ELSE IF InMessage("rate limit", [ i \in 1..Len(b.msg) |-> LowerWord(b.msg[i]) ])
  THEN BodyRaise(n, "RateLimitError", "The search service rate limit has been reached")
  ELSE BodyRaise(n, "ExternalServiceError", "Error during research")

\* the arguments of the decorator at deep_research.py:173
ResearchRetryConfig ==
  RetryConfig(2, {"ExternalServiceError", "ConnectionError", "TimeoutError"},
              "EXPONENTIAL_BACKOFF", 1, 60)

\* the outcome as the wrappers see it
WrapperOutcome(o) == [ ok |-> o.ok, n |-> o.n, exc |-> o.exc ]

\* invocation Len(outs) + 1 of the body ends with o: the retry wrapper takes it
EndInvocation(o) ==
  /\ outs' = Append(outs, WrapperOutcome(o))
  /\ suspending' = async_retry_on_error(suspending, rcfg, Append(outs, WrapperOutcome(o)))

\* the agent calls the tool
ResearchCall ==
  /\ research.pc \in {"idle", "returned"}
  /\ research.n < MaxResearchCalls
  /\ \E topic \in TopicArgs :
       research' = [ NoResearch EXCEPT !.pc = "running", !.n = research.n + 1,
                                       !.topic = topic, !.env = env ]
  /\ outs' = <<>>
  /\ suspending' = RunStart
  /\ toolres' = NoToolCall
  /\ logged' = NoLog
  /\ UNCHANGED << rcfg, blocking, response, degraded, env, sessions >>
  /\ UNCHANGED cacheVars
  /\ UNCHANGED sessionVars

\* the retry wrapper invokes the body, which runs up to the backend call
ResearchInvoke ==
  /\ research.pc = "running"
  /\ suspending.pc = "loop"
  /\ LET n == Len(outs) + 1
         s == body_before_search(research.topic, search_cache, clock, env, n)
     IN  /\ IF s.got
            THEN /\ CacheGet(s.key)
                 /\ research' = [ research EXCEPT
                      !.gets = @ + 1, !.got_at = clock,
                      !.hit = s.r.ret # NoValue,
                      !.value = IF s.called THEN @ ELSE s.o.value,
                      !.backend = IF s.called THEN @ + 1 ELSE @,
                      !.pc = IF s.called THEN "searching" ELSE @ ]
            ELSE /\ research' = [ research EXCEPT !.value = s.o.value ]
                 /\ UNCHANGED cacheVars
         /\ IF s.called THEN UNCHANGED << outs, suspending >> ELSE EndInvocation(s.o)
  /\ UNCHANGED << rcfg, blocking, env, sessions >>
  /\ UNCHANGED middlewareVars
  /\ UNCHANGED sessionVars

\* the backend answers or fails, and the body runs to its end
ResearchSearch ==
  /\ research.pc = "searching"
  /\ \E b \in BackendOutcomes :
       LET n == Len(outs) + 1
           key == normalized_topic(research.topic)
           o == body_after_search(b, key, n)
       IN  /\ IF o.ok
              THEN CacheSet(key, o.value, research.topic.chars, research.n)
              ELSE UNCHANGED cacheVars
           /\ research' = [ research EXCEPT
                !.pc = "running", !.value = o.value,
                !.sets = IF o.ok THEN @ + 1 ELSE @,
                !.responses = Append(@, b) ]
           /\ EndInvocation(o)
  /\ UNCHANGED << rcfg, blocking, env, sessions >>
  /\ UNCHANGED middlewareVars
  /\ UNCHANGED sessionVars

\* the sleep between two invocations ends
ResearchWake ==
  /\ research.pc = "running"
  /\ suspending.pc = "sleep"
  /\ suspending' = async_retry_on_error(suspending, rcfg, outs)
  /\ UNCHANGED << rcfg, outs, blocking >>
  /\ UNCHANGED middlewareVars
  /\ UNCHANGED researchVars
  /\ UNCHANGED sessionVars

\* the retry wrapper is done: handle_tool_errors returns to the agent
ResearchReturn ==
  /\ research.pc = "running"
  /\ suspending.pc = "done"
  /\ LET o == IF suspending.result.how = "raised"
              THEN [ ok |-> FALSE, n |-> suspending.invocations, exc |-> suspending.result.exc ]
              ELSE Success(suspending.result.n)
     IN  /\ toolres' = handle_tool_errors(o)
         /\ logged' = LogToolError(o)
  /\ research' = [ research EXCEPT !.pc = "returned" ]
  /\ UNCHANGED retryVars
  /\ UNCHANGED << response, degraded, env, sessions >>
  /\ UNCHANGED cacheVars
  /\ UNCHANGED sessionVars

\* between two calls the environment changes
SetEnv ==
  /\ research.pc \in {"idle", "returned"}
  /\ \E e \in Environments : e # env /\ env' = e
  /\ UNCHANGED << research, sessions >>
  /\ UNCHANGED cacheVars
  /\ UNCHANGED retryVars
  /\ UNCHANGED middlewareVars
  /\ UNCHANGED sessionVars

NextResearch ==
  ResearchCall \/ ResearchInvoke \/ ResearchSearch \/ ResearchWake \/ ResearchReturn
    \/ SetEnv \/ Tick

InitResearch ==
  /\ state = Empty
  /\ SessionStart
  /\ rcfg = ResearchRetryConfig
  /\ outs = <<>>
  /\ blocking = RunStart
  /\ suspending = RunStart
  /\ MiddlewareIdle
  /\ search_cache \in { SearchCache(a[1], a[2]) : a \in SearchCacheArgs }
  /\ clock = 0
  /\ cacheop = NoCacheOp
  /\ written = <<>>
  /\ env \in Environments
  /\ research = NoResearch
  /\ sessions = NoSessions

SpecResearch == InitResearch /\ [][NextResearch]_vars

(***************************************************************************)
(* Several sessions on the one cache.  search_cache is a module global     *)
(* (deep_research.py:151), so every session's call of the tool reads and   *)
(* writes the same object.  The calls are coroutines on one event loop: a  *)
(* call runs alone from one await that suspends to the next.  get and set  *)
(* hold no await (deep_research.py:102-148), so they never suspend; the    *)
(* body suspends at the backend call (deep_research.py:228-231) and the    *)
(* retry wrapper at its sleep (error_handling.py:297), and there the call  *)
(* of another session may run.  One action is one such stretch.            *)
(***************************************************************************)
Sessions == 1..NumSessions

\* the topics the sessions ask about: two spellings of one key, and another key
SessionTopics == { TopicStr(<<"a">>), TopicStr(<<"A", " ">>), TopicStr(<<"b">>) }

\* what the backend does for the sessions: no results, results, a failure
SessionBackendOutcomes ==
  { BackendResponse(0, "absent"), BackendResponse(2, "answer"),
    BackendRaise("RuntimeError", <<"boom">>) }

\* the backend fails at most this many times in all
MaxBackendFailures == 1

RECURSIVE BackendFailures(_)
BackendFailures(n) ==
  IF n = 0 THEN 0
  ELSE BackendFailures(n - 1)
         + Cardinality({ i \in 1..Len(sessions[n].outs) : ~sessions[n].outs[i].ok })

\* where the call of a session is once its wrapper is at r
SessionAt(r) == IF r.pc = "done" THEN "returned" ELSE "sleeping"

\* invocation Len(outs) + 1 of the body in session s ends with o, and the wrapper
\* goes on to its return or to its sleep
SessionEndInvocation(ses, o) ==
  LET results == Append(ses.outs, WrapperOutcome(o))
      r == async_retry_on_error(ses.run, rcfg, results)
  IN  [ ses EXCEPT !.outs = results, !.run = r, !.pc = SessionAt(r) ]

\* the wrapper of a session, at the head of its loop, invokes the body, which runs up
\* to the backend call: the get, and the session after it
SessionInvoke(s, ses) ==
  LET n == Len(ses.outs) + 1
      b == body_before_search(ses.topic, search_cache, clock, env, n)
  IN  /\ IF b.got THEN CacheGet(b.key) ELSE UNCHANGED cacheVars
      /\ sessions' = [ sessions EXCEPT ![s] =
           IF b.called
           THEN [ ses EXCEPT !.pc = "searching", !.searched = @ + 1 ]
           ELSE SessionEndInvocation(ses, b.o) ]

\* session s calls the tool (the sessions are alike: they are numbered in the order
\* of their calls)
SessionCall(s) ==
  /\ sessions[s].pc = "idle"
  /\ \A t \in 1..(s - 1) : sessions[t].pc # "idle"
  /\ \E topic \in SessionTopics :
       SessionInvoke(s, [ NoSession EXCEPT !.topic = topic ])
  /\ UNCHANGED << env, research >>
  /\ UNCHANGED retryVars
  /\ UNCHANGED middlewareVars
  /\ UNCHANGED sessionVars

\* the backend answers session s or fails: the body runs to its end, storing what it
\* returns, and the wrapper returns, raises or goes to sleep
SessionSearch(s) ==
  /\ sessions[s].pc = "searching"
  /\ \E b \in SessionBackendOutcomes :
       LET n == Len(sessions[s].outs) + 1
           key == normalized_topic(sessions[s].topic)
           o == body_after_search(b, key, n)
       IN  /\ b.raised # "" => BackendFailures(NumSessions) < MaxBackendFailures
           /\ IF o.ok
              THEN CacheSet(key, o.value, key, 0)
              ELSE UNCHANGED cacheVars
           /\ sessions' = [ sessions EXCEPT ![s] =
                [ SessionEndInvocation(sessions[s], o) EXCEPT
                    !.failed = @ \/ b.raised # "" ] ]
  /\ UNCHANGED << env, research >>
  /\ UNCHANGED retryVars
  /\ UNCHANGED middlewareVars
  /\ UNCHANGED sessionVars

\* the sleep of session s ends and its wrapper invokes the body again
SessionWake(s) ==
  /\ sessions[s].pc = "sleeping"
  /\ SessionInvoke(s, [ sessions[s] EXCEPT
                          !.run = async_retry_on_error(@, rcfg, sessions[s].outs) ])
  /\ UNCHANGED << env, research >>
  /\ UNCHANGED retryVars
  /\ UNCHANGED middlewareVars
  /\ UNCHANGED sessionVars

NextSessions ==
  \/ \E s \in Sessions : SessionCall(s)
  \/ \E s \in Sessions : SessionSearch(s)
  \/ \E s \in Sessions : SessionWake(s)
  \/ Tick

InitSessions ==
  /\ state = Empty
  /\ SessionStart
  /\ rcfg = ResearchRetryConfig
  /\ outs = <<>>
  /\ blocking = RunStart
  /\ suspending = RunStart
  /\ MiddlewareIdle
  /\ search_cache \in { SearchCache(a[1], a[2]) : a \in SearchCacheArgs }
  /\ clock = 0
  /\ cacheop = NoCacheOp
  /\ written = <<>>
  /\ env = REQUIRED_ENV_VARS
  /\ research = NoResearch
  /\ sessions = NoSessions

SpecSessions == InitSessions /\ [][NextSessions]_vars


(***************************************************************************)
(* Helpers of the properties.                                              *)
(***************************************************************************)
\* consecutive duplicates collapsed
RECURSIVE Collapse(_)
Collapse(q) ==
  IF Len(q) <= 1 THEN q
  ELSE IF q[1] = q[2] THEN Collapse(Tail(q))
       ELSE <<q[1]>> \o Collapse(Tail(q))

Front(q) == SubSeq(q, 1, Len(q) - 1)

PhaseKeys == { CURRENT_PHASE, PENDING_USER_ACTION, PHASE_HISTORY }

\* the keys a session state may hold
Keys == PhaseKeys \cup { SYSTEM_TIME, ITBP_INITIALIZED, PRD_MD, METADATA, USER_FEEDBACK_CONTENT }

\* the last operation left the keys of K as they were
Kept(K) == \A k \in K : Get(state, k) = Get(call.pre, k)

(***************************************************************************)
(* C1: after any sequence of set(CURRENT_PHASE, p) / transition calls on   *)
(* an initialized session, PHASE_HISTORY is the sequence of the phases the *)
(* session occupied before the current one, consecutive duplicates         *)
(* collapsed; a phase that is re-entered and left again is recorded again. *)
(***************************************************************************)
C1_HistoryIsCollapsedPriorPhases ==
  Initialized => state[PHASE_HISTORY] = List(Front(Collapse(phases)))

(***************************************************************************)
(* C2: PHASE_HISTORY is empty or its last element differs from the current *)
(* phase.                                                                  *)
(***************************************************************************)
C2_HistoryLastIsNotCurrent ==
  (Initialized /\ state[PHASE_HISTORY].t = "list" /\ state[PHASE_HISTORY].l # <<>>)
    => state[PHASE_HISTORY].l[Len(state[PHASE_HISTORY].l)] # state[CURRENT_PHASE].s

(***************************************************************************)
(* C3: the value stored under CURRENT_PHASE is always one of the eleven    *)
(* Phase values, whatever strings the tools are given.                     *)
(***************************************************************************)
C3_CurrentPhaseIsAPhase ==
  Initialized => (state[CURRENT_PHASE].t = "str" /\ state[CURRENT_PHASE].s \in Phase)

(***************************************************************************)
(* C4: a transition to a string outside the Phase set fails with           *)
(* ValidationError and leaves phase, pending action and history unchanged. *)
(***************************************************************************)
C4_InvalidPhaseRejected ==
  (call.op = "update_phase" /\ call.a1 \notin Phase)
    => (ret.exc = "ValidationError" /\ Kept(PhaseKeys))

(***************************************************************************)
(* C5: a transition with pending_action omitted leaves PENDING_USER_ACTION *)
(* as it was, for every prior state and target phase, FINISHED included.   *)
(***************************************************************************)
C5_OmittedPendingKept ==
  (call.op = "update_phase" /\ call.a2 = None) => Kept({PENDING_USER_ACTION})

C5_Witness ==
  /\ call.op = "update_phase"
  /\ call.a1 = "FINISHED"
  /\ call.a2 = None
  /\ ret.exc = ""
  /\ state[CURRENT_PHASE] = Str("FINISHED")
  /\ state[PENDING_USER_ACTION] = Str("REVIEW_PRD")

(***************************************************************************)
(* C6: transition(p1, a1) followed by transition(p2, a2), p1 and p2        *)
(* distinct phases and both pending actions provided, leaves               *)
(* CURRENT_PHASE = p2, PENDING_USER_ACTION = a2 and p1 in PHASE_HISTORY.   *)
(***************************************************************************)
\* the last operation was transition(p, a) with p a phase and a provided
ProvidedTransition(c) == c.op = "update_phase" /\ c.a1 \in Phase /\ c.a2 # None

C6_TwoTransitions ==
  [][ ( /\ ProvidedTransition(call)
        /\ ncalls' = ncalls + 1
        /\ ProvidedTransition(call')
        /\ call'.a1 # call.a1 )
      => ( /\ state'[CURRENT_PHASE] = Str(call'.a1)
           /\ state'[PENDING_USER_ACTION] = call'.a2
           /\ state'[PHASE_HISTORY].t = "list"
           /\ call.a1 \in Range(state'[PHASE_HISTORY].l) ) ]_vars

C6_Witness ==
  /\ ncalls = 2
  /\ phases = << "START", "GET_IDEA", "FINISHED" >>
  /\ ProvidedTransition(call)
  /\ call.a2 = Str("REVIEW_ARCHITECTURE")
  /\ call.pre[PENDING_USER_ACTION] = Str("REVIEW_PRD")
  /\ state[PENDING_USER_ACTION] = Str("REVIEW_ARCHITECTURE")
  /\ "GET_IDEA" \in Range(state[PHASE_HISTORY].l)

(***************************************************************************)
(* C7: transition legality is never checked: from every phase p a          *)
(* transition to every phase q succeeds and yields CURRENT_PHASE = q,      *)
(* START directly to FINISHED, backward jumps and leaving FINISHED         *)
(* included.                                                               *)
(***************************************************************************)
C7_AnyTransitionSucceeds ==
  (call.op = "update_phase" /\ call.a1 \in Phase /\ call.pre[CURRENT_PHASE].s \in Phase)
    => (ret.exc = "" /\ state[CURRENT_PHASE] = Str(call.a1))

\* START directly to FINISHED, then back from FINISHED to START
C7_Witness ==
  /\ ncalls = 2
  /\ phases = << "START", "FINISHED", "START" >>
  /\ call.op = "update_phase"
  /\ call.pre[PENDING_USER_ACTION] = Str("REVIEW_PRD")
  /\ call.pre[CURRENT_PHASE] = Str("FINISHED")
  /\ state[CURRENT_PHASE] = Str("START")

(***************************************************************************)
(* C8: initialize is idempotent: on an initialized session a later         *)
(* initialize, with any defaults and anywhere among the other operations,  *)
(* leaves every artifact slot, CURRENT_PHASE, PENDING_USER_ACTION and      *)
(* PHASE_HISTORY unchanged.                                                *)
(***************************************************************************)
ArtifactKeys == { PRD_MD }

C8_InitializeIdempotent ==
  (call.op = "initialize" /\ ITBP_INITIALIZED \in DOMAIN call.pre)
    => Kept(ArtifactKeys \cup PhaseKeys)

\* a second initialize whose defaults name a slot and phase keys written since the first
C8_Witness ==
  /\ call.op = "initialize"
  /\ ITBP_INITIALIZED \in DOMAIN call.pre
  /\ ret.exc = ""
  /\ ncalls = 2
  /\ call.src = ResumeDefaults
  /\ Get(state, CURRENT_PHASE) = Str("FINISHED")
  /\ Get(state, PENDING_USER_ACTION) = Str("REVIEW_PRD")
  /\ Get(state, PHASE_HISTORY) = List(<<"START">>)
  /\ Get(state, PRD_MD) = Str("prd-v1")

(***************************************************************************)
(* C9: the first initialize(defaults) of a session sets the initialized    *)
(* flag, stores every key of defaults with its value, and leaves           *)
(* CURRENT_PHASE, PENDING_USER_ACTION and PHASE_HISTORY present: START,    *)
(* None and the empty list when neither the prior state nor defaults       *)
(* supplied them, the supplied value otherwise.                            *)
(***************************************************************************)
ZeroValue(k) ==
  CASE k = CURRENT_PHASE -> Str("START")
    [] k = PENDING_USER_ACTION -> None
    [] k = PHASE_HISTORY -> List(<<>>)

C9_FirstInitialize ==
  (call.op = "initialize" /\ ITBP_INITIALIZED \notin DOMAIN call.pre /\ ret.exc = "")
    => ( /\ Get(state, ITBP_INITIALIZED) = True
         /\ \A k \in DOMAIN call.src : Get(state, k) = call.src[k]
         /\ \A k \in PhaseKeys :
              Get(state, k) = IF k \in DOMAIN call.src THEN call.src[k]
                              ELSE IF k \in DOMAIN call.pre THEN call.pre[k]
                              ELSE ZeroValue(k) )

\* a session created with a phase, initialized from defaults that supply none
C9_Witness ==
  /\ call.op = "initialize"
  /\ ITBP_INITIALIZED \notin DOMAIN call.pre
  /\ ret.exc = ""
  /\ call.src = ArtifactDefaults
  /\ call.pre # Empty
  /\ Get(state, CURRENT_PHASE) = Str("PM_DEFINE")
  /\ Get(state, PENDING_USER_ACTION) = None
  /\ Get(state, PHASE_HISTORY) = List(<<>>)
  /\ Get(state, PRD_MD) = Str("prd-from-config")

(***************************************************************************)
(* C10: set(key, value) is an unconditional complete replacement:          *)
(* afterwards the key holds value whatever was stored before, and no other *)
(* key changes, except PHASE_HISTORY when the key is CURRENT_PHASE.        *)
(***************************************************************************)
C10_SetReplaces ==
  call.op = "memorize"
    => ( /\ ret.exc = ""
         /\ Get(state, call.a1) = call.a2
         /\ Kept(Keys \ ({call.a1} \cup (IF call.a1 = CURRENT_PHASE THEN {PHASE_HISTORY} ELSE {}))) )

(***************************************************************************)
(* C11: the set of keys of a session state never shrinks: every key        *)
(* present before an initialize, set, append_to_list, remove_from_list or  *)
(* transition is present after it.                                         *)
(***************************************************************************)
C11_KeysNeverShrink == [][ (DOMAIN state) \subseteq (DOMAIN state') ]_vars

\* remove_from_list took the last element of a list and the key is still there
C11_Witness ==
  /\ call.op = "forget"
  /\ ret.exc = ""
  /\ call.a1 = USER_FEEDBACK_CONTENT
  /\ Get(call.pre, USER_FEEDBACK_CONTENT) = List(<<"fb1">>)
  /\ Get(state, USER_FEEDBACK_CONTENT) = List(<<>>)

(***************************************************************************)
(* C12: append_to_list creates the list when the key is absent and appends *)
(* a value only if the list does not hold it: a slot built through         *)
(* append_to_list only holds the appended values once each, in order of    *)
(* first insertion, and appending a value already present leaves the whole *)
(* state unchanged.                                                        *)
(***************************************************************************)
\* the first occurrences of the elements of q, in order
RECURSIVE FirstOccurrences(_)
FirstOccurrences(q) ==
  IF q = <<>> THEN q
  ELSE LET f == FirstOccurrences(Front(q))
       IN  IF q[Len(q)] \in Range(f) THEN f ELSE Append(f, q[Len(q)])

C12_AppendToListIsSetLike ==
  /\ listlog.pure =>
       Get(state, USER_FEEDBACK_CONTENT) =
         IF listlog.vals = <<>> THEN Absent ELSE List(FirstOccurrences(listlog.vals))
  /\ ( /\ call.op = "memorize_list"
       /\ Get(call.pre, call.a1).t = "list"
       /\ call.a2.s \in Range(Get(call.pre, call.a1).l) )
       => (ret.exc = "" /\ state = call.pre)

\* the same value appended twice
C12_Witness ==
  /\ listlog.pure
  /\ listlog.vals = << "fb1", "fb1" >>
  /\ call.op = "memorize_list"
  /\ Get(state, USER_FEEDBACK_CONTENT) = List(<<"fb1">>)
  /\ state = call.pre

(***************************************************************************)
(* C13: remove_from_list returns success without raising when the key is   *)
(* absent and when the key holds a list without the value; in the latter   *)
(* case the list is unchanged.                                             *)
(***************************************************************************)
C13_RemoveOfAbsentSucceeds ==
  ( /\ call.op = "forget"
    /\ \/ call.a1 \notin DOMAIN call.pre
       \/ /\ Get(call.pre, call.a1).t = "list"
          /\ call.a2.s \notin Range(Get(call.pre, call.a1).l) )
    => ( /\ ret.exc = ""
         /\ call.a1 \in DOMAIN call.pre => Get(state, call.a1) = Get(call.pre, call.a1) )

(***************************************************************************)
(* C14: the delay slept before retry number attempt is 0 under IMMEDIATE,  *)
(* min(base * 2^(attempt-1), max) under EXPONENTIAL_BACKOFF,               *)
(* min(base * attempt, max) under LINEAR_BACKOFF and base under            *)
(* CONSTANT_DELAY; with base 1, exponential backoff sleeps 1, 2, 4, 8, 16  *)
(* when the maximum is 60 and 1, 2, 4, 8, 10 when it is 10.                *)
(***************************************************************************)
DocumentedDelay(attempt) ==
  CASE rcfg.retry_policy = "IMMEDIATE" -> 0
    [] rcfg.retry_policy = "EXPONENTIAL_BACKOFF" ->
         Min(rcfg.base_delay * 2 ^ (attempt - 1), rcfg.max_delay)
    [] rcfg.retry_policy = "LINEAR_BACKOFF" -> Min(rcfg.base_delay * attempt, rcfg.max_delay)
    [] rcfg.retry_policy = "CONSTANT_DELAY" -> rcfg.base_delay
    [] OTHER -> -1

DocumentedExample(delays) ==
  (rcfg.retry_policy = "EXPONENTIAL_BACKOFF" /\ rcfg.base_delay = 1 /\ Len(delays) = 5)
    => /\ rcfg.max_delay = 60 => delays = <<1, 2, 4, 8, 16>>
       /\ rcfg.max_delay = 10 => delays = <<1, 2, 4, 8, 10>>

C14_DelaysFollowPolicy ==
  \A r \in {blocking, suspending} :
    /\ \A i \in 1..Len(r.delays) : r.delays[i] = DocumentedDelay(i)
    /\ DocumentedExample(r.delays)

C14_Witness ==
  /\ rcfg.retry_policy = "EXPONENTIAL_BACKOFF" /\ rcfg.base_delay = 1 /\ rcfg.max_delay = 10
  /\ blocking.delays = <<1, 2, 4, 8, 10>>
  /\ suspending.delays = <<1, 2, 4, 8, 10>>

(***************************************************************************)
(* C15: when every invocation fails with an exception the decorator        *)
(* retries, max_retries >= 0 and the policy is not NO_RETRY, the run       *)
(* invokes the operation max_retries + 1 times, sleeps max_retries times   *)
(* and raises the very exception the last invocation raised.               *)
(***************************************************************************)
AllFailedRetryable(r) ==
  /\ r.pc = "done"
  /\ \A n \in 1..r.invocations :
       ~outs[n].ok /\ IsInstance(outs[n].exc, rcfg.retry_exceptions)

ExhaustsRetries(r) ==
  (AllFailedRetryable(r) /\ rcfg.max_retries >= 0 /\ rcfg.retry_policy # "NO_RETRY")
    => /\ r.invocations = rcfg.max_retries + 1
       /\ Len(r.delays) = rcfg.max_retries
       /\ r.result = RaisedError(outs[rcfg.max_retries + 1].exc)

C15_ExhaustedRunRaisesLastError == ExhaustsRetries(blocking) /\ ExhaustsRetries(suspending)

C15_Witness ==
  /\ rcfg.max_retries = 2 /\ rcfg.retry_policy = "LINEAR_BACKOFF"
  /\ AllFailedRetryable(blocking) /\ AllFailedRetryable(suspending)
  /\ blocking.invocations = 3
  /\ outs[1].exc.kind # outs[3].exc.kind
  /\ blocking.result.how = "raised" /\ blocking.result.exc.id = 3

(***************************************************************************)
(* C16: under NO_RETRY, for every max_retries >= 0, a failing operation is *)
(* invoked exactly once, nothing is slept and the exception it raised is   *)
(* the one raised.                                                         *)
(***************************************************************************)
NeverRetries(r) ==
  (rcfg.retry_policy = "NO_RETRY" /\ rcfg.max_retries >= 0)
    => /\ r.invocations <= 1
       /\ r.delays = <<>>
       /\ (r.pc = "done" /\ ~outs[1].ok)
            => r.invocations = 1 /\ r.result = RaisedError(outs[1].exc)

C16_NoRetryInvokesOnce == NeverRetries(blocking) /\ NeverRetries(suspending)

C16_Witness ==
  /\ rcfg.retry_policy = "NO_RETRY" /\ rcfg.max_retries = 3
  /\ rcfg.retry_exceptions = {"Exception"}
  /\ blocking.pc = "done" /\ suspending.pc = "done"
  /\ blocking.invocations = 1
  /\ blocking.result.how = "raised" /\ blocking.result.exc.id = 1

(***************************************************************************)
(* C17: given the same arguments and the same outcomes of the operation,   *)
(* the blocking and the suspending wrapper make the same number of         *)
(* invocations, sleep the same delays and end with the same value or the   *)
(* same exception.                                                         *)
(***************************************************************************)
C17_VariantsAgree ==
  (blocking.pc = "done" /\ suspending.pc = "done")
    => /\ blocking.invocations = suspending.invocations
       /\ blocking.delays = suspending.delays
       /\ blocking.result = suspending.result

C17_Witness ==
  /\ blocking.pc = "done" /\ suspending.pc = "done"
  /\ rcfg.retry_policy = "LINEAR_BACKOFF"
  /\ blocking.delays = <<3, 6>>
  /\ suspending.result = ReturnedValue(3)

(***************************************************************************)
(* C18: a tool wrapped by handle_tool_errors whose body raises an          *)
(* exception (an instance of Exception) does not raise: it returns the     *)
(* failure object with success false, a non-empty user message as error,   *)
(* the name of the exception's class as error kind and the technical       *)
(* message as error detail.                                                *)
(***************************************************************************)
C18_ToolFailureIsReturned ==
  (~toolres.op.ok /\ "Exception" \in Ancestors(toolres.op.exc.kind))
    => /\ toolres.propagated = ""
       /\ toolres.value.success = FALSE
       /\ toolres.value.error # ""
       /\ toolres.value.error_type = toolres.op.exc.kind
       /\ toolres.value.error_details = toolres.op.exc.msg

C18_Witness ==
  /\ ~toolres.op.ok /\ toolres.op.exc.kind = "ValidationError"
  /\ toolres.propagated = ""
  /\ toolres.value.success = FALSE
  /\ toolres.value.error = "A validation error occurred. Please check your inputs."
  /\ toolres.value.error_type = "ValidationError"

(***************************************************************************)
(* C19: a callback wrapped by handle_callback_errors whose body raises an  *)
(* exception (an instance of Exception) completes without raising, and     *)
(* the agent response is then the error text built around a non-empty      *)
(* user message, which is the exception's own user message when it has     *)
(* one.                                                                    *)
(***************************************************************************)
C19_CallbackFailureIsStored ==
  (call.op = "callback" /\ call.a1 # "" /\ "Exception" \in Ancestors(call.a1))
    => /\ ret.exc = ""
       /\ Len(response) = 3
       /\ response[2] # ""
       /\ call.a2.s # "" => response = ErrorResponse(call.a2.s)

C19_Witness ==
  /\ call.op = "callback" /\ call.a1 = "ValidationError" /\ call.a2.s = "custom user message"
  /\ ret.exc = ""
  /\ response = ErrorResponse("custom user message")

(***************************************************************************)
(* C20: after a wrapped callback whose body raised, CURRENT_PHASE,         *)
(* PENDING_USER_ACTION and PHASE_HISTORY are what they were before the     *)
(* call, whatever the body wrote before raising.                          *)
(***************************************************************************)
C20_FailedCallbackKeepsPhaseState ==
  (call.op = "callback" /\ call.a1 # "") => Kept(PhaseKeys)

(***************************************************************************)
(* C21: the graceful-degradation wrappers, blocking and suspending, return *)
(* the operation's result unchanged when it succeeds and the configured    *)
(* fallback value when it raises an exception (an instance of Exception);  *)
(* in neither case does the failure leave the wrapper.                     *)
(***************************************************************************)
DegradesGracefully(w) ==
  /\ degraded.op.ok /\ degraded.op.n > 0
       => w = Degraded("", "func", degraded.op.n, "")
  /\ (~degraded.op.ok /\ "Exception" \in Ancestors(degraded.op.exc.kind))
       => w = Degraded("", "fallback", 0, degraded.fallback_value)

C21_FailureBecomesFallback ==
  DegradesGracefully(degraded.blocking) /\ DegradesGracefully(degraded.suspending)

C21_Witness ==
  /\ ~degraded.op.ok /\ degraded.op.exc.kind = "RuntimeError"
  /\ degraded.fallback_value = "other fallback"
  /\ degraded.blocking.from = "fallback" /\ degraded.blocking.fallback = "other fallback"
  /\ degraded.suspending.from = "fallback" /\ degraded.suspending.fallback = "other fallback"

(***************************************************************************)
(* C22: every caught error is logged under exactly one category: a domain  *)
(* error under the category it carries; otherwise a connection or timeout  *)
(* error under NETWORK, a bad value, bad type or missing key under         *)
(* VALIDATION, a missing file or refused permission under RESOURCE, a      *)
(* failed import under CONFIGURATION and anything else under INTERNAL.     *)
(***************************************************************************)
DocumentedCategory(e) ==
  LET classes == Ancestors(e.kind)
  IN  IF "ITBPMethodError" \in classes THEN e.category
      ELSE IF classes \cap {"ConnectionError", "TimeoutError"} # {} THEN "NETWORK"
      ELSE IF classes \cap {"ValueError", "TypeError", "KeyError"} # {} THEN "VALIDATION"
      ELSE IF classes \cap {"FileNotFoundError", "PermissionError"} # {} THEN "RESOURCE"
      ELSE IF classes \cap {"ImportError", "ModuleNotFoundError"} # {} THEN "CONFIGURATION"
      ELSE "INTERNAL"

ErrorCategory ==
  { "CONFIGURATION", "NETWORK", "STATE", "VALIDATION", "EXTERNAL_SERVICE", "INTERNAL",
    "SECURITY", "USER_INPUT", "RESOURCE", "UNKNOWN" }

C22_ClassifierIsTotal ==
  (~toolres.op.ok /\ toolres.propagated = "")
    => /\ logged.error = toolres.op.exc
       /\ logged.error_category \in ErrorCategory
       /\ logged.error_category = DocumentedCategory(toolres.op.exc)

C22_Witness ==
  /\ ~toolres.op.ok /\ toolres.op.exc.kind = "KeyError"
  /\ logged.error = toolres.op.exc
  /\ logged.error_category = "VALIDATION"

(***************************************************************************)
(* C23: a set stores the value under the key with the current time; a get  *)
(* of a key that is held returns the value stored by the last set of that  *)
(* key, and removes nothing, as long as no more than ttl_seconds have      *)
(* passed since that set; once more have passed it returns None and        *)
(* removes the entry, and only that entry.                                 *)
(***************************************************************************)
EntriesAsStored ==
  /\ DOMAIN search_cache._cache = DOMAIN written
  /\ TimestampKeys(search_cache._timestamps) = DOMAIN written
  /\ \A k \in DOMAIN written :
       /\ search_cache._cache[k] = written[k].value
       /\ TimestampOf(search_cache._timestamps, k, -1) = written[k].at

C23_GetReturnsLiveEntry ==
  /\ EntriesAsStored
  /\ cacheop.op = "set"
       => /\ cacheop.key \in DOMAIN search_cache._cache
          /\ search_cache._cache[cacheop.key] = cacheop.value
  /\ (cacheop.op = "get" /\ cacheop.held /\ cacheop.age <= search_cache._ttl_seconds)
       => /\ cacheop.key \in DOMAIN search_cache._cache
          /\ cacheop.ret = search_cache._cache[cacheop.key]
          /\ cacheop.evicted = {}
  /\ (cacheop.op = "get" /\ cacheop.held /\ cacheop.age > search_cache._ttl_seconds)
       => /\ cacheop.ret = NoValue
          /\ cacheop.key \notin DOMAIN search_cache._cache
          /\ \A e \in cacheop.evicted : e.key = cacheop.key

C23_Witness ==
  /\ cacheop.op = "get" /\ cacheop.held /\ cacheop.age > search_cache._ttl_seconds
  /\ \E e \in cacheop.evicted : e.key = cacheop.key /\ e.read
  /\ cacheop.ret = NoValue
  /\ cacheop.key \notin DOMAIN search_cache._cache

(***************************************************************************)
(* C24: the cache never holds more than max_size entries, whatever gets,   *)
(* sets and clock advances have happened.                                  *)
(***************************************************************************)
C24_CacheIsBounded ==
  /\ Cardinality(DOMAIN search_cache._cache) <= search_cache._max_size
  /\ Len(search_cache._timestamps) <= search_cache._max_size

C24_Witness ==
  /\ cacheop.op = "set" /\ cacheop.full /\ ~cacheop.held
  /\ Cardinality(DOMAIN search_cache._cache) = search_cache._max_size

(***************************************************************************)
(* C25: a set of a key that is not held, on a cache holding max_size       *)
(* entries, removes exactly one entry, one that no held entry was stored   *)
(* before, and keeps every other entry with its value; the gets made since *)
(* the entries were stored have no part in the choice.                     *)
(***************************************************************************)
InsertsIntoFull == cacheop.op = "set" /\ ~cacheop.held /\ cacheop.full

Survivors == (DOMAIN search_cache._cache) \ {cacheop.key}

C25_EvictsOldestInserted ==
  InsertsIntoFull
    => /\ Cardinality(cacheop.evicted) = 1
       /\ Cardinality(Survivors) = search_cache._max_size - 1
       /\ \A e \in cacheop.evicted : \A k \in Survivors : e.at <= written[k].at
       /\ \A k \in Survivors : search_cache._cache[k] = written[k].value

C25_Witness ==
  /\ InsertsIntoFull
  /\ \E e \in cacheop.evicted : \E k \in Survivors :
       e.read /\ ~written[k].read /\ e.at < written[k].at

\* two topics that differ only in letter case or in blanks at their ends
SameTopic(t, u) == strip(lower(t)) = strip(lower(u))

\* the entry under k was stored by an earlier call of the tool for a topic like the
\* current call's, and was no older than the TTL when the current call read the cache
StoredForSameTopic(k) ==
  /\ written[k].call # 0
  /\ written[k].call < research.n
  /\ SameTopic(written[k].by, research.topic.chars)
  /\ research.got_at - written[k].at <= search_cache._ttl_seconds

(***************************************************************************)
(* C26: a research call for a valid topic, made while the cache holds an   *)
(* entry no older than the TTL that an earlier call stored for a topic     *)
(* differing only in case or surrounding blanks, reads that entry: it      *)
(* returns the stored result from its first invocation and makes no        *)
(* backend call.                                                           *)
(***************************************************************************)
C26_SameTopicReadsSameEntry ==
  (research.pc = "returned" /\ ValidTopic(research.topic)) =>
    \A k \in DOMAIN written :
      StoredForSameTopic(k) =>
        /\ research.hit
        /\ research.value = written[k].value
        /\ research.backend = 0
        /\ research.sets = 0
        /\ suspending.invocations = 1
        /\ toolres.propagated = ""
        /\ toolres.value.success

C26_Witness ==
  /\ research.pc = "returned"
  /\ research.hit
  /\ research.backend = 0
  /\ \E k \in DOMAIN written :
       /\ StoredForSameTopic(k)
       /\ written[k].by # research.topic.chars
       /\ research.value = written[k].value

\* an input that is not a string, is empty, or holds blanks only
InvalidInput(topic) == ~topic.isstr \/ strip(topic.chars) = <<>>

(***************************************************************************)
(* C27: a research call with an input that is empty, blank or not a string *)
(* never reads or writes the cache and never invokes the backend; it ends  *)
(* after one invocation of the body, without a sleep, and the tool wrapper *)
(* returns the failure object of a ValidationError.                        *)
(***************************************************************************)
C27_InvalidInputFailsValidation ==
  (research.pc # "idle" /\ InvalidInput(research.topic)) =>
    /\ research.gets = 0
    /\ research.sets = 0
    /\ research.backend = 0
    /\ suspending.delays = <<>>
    /\ suspending.invocations <= 1
    /\ research.pc = "returned" =>
         /\ suspending.invocations = 1
         /\ toolres.propagated = ""
         /\ ~toolres.value.success
         /\ toolres.value.error_type = "ValidationError"
         /\ logged.error_category = "VALIDATION"

C27_Witness ==
  /\ research.pc = "returned"
  /\ research.n = 2
  /\ research.topic = TopicStr(<<" ">>)
  /\ DOMAIN written # {}
  /\ toolres.value.error_type = "ValidationError"

(***************************************************************************)
(* C28: a research call with a valid topic, made while a required          *)
(* environment variable is not set, never invokes the backend, ends after  *)
(* one invocation of the body, and the tool wrapper returns the failure    *)
(* object of a ConfigurationError, logged in category CONFIGURATION.       *)
(***************************************************************************)
C28_MissingConfigurationFails ==
  (research.pc = "returned" /\ ValidTopic(research.topic)
     /\ REQUIRED_ENV_VARS \ research.env # {}) =>
    /\ research.backend = 0
    /\ suspending.invocations = 1
    /\ suspending.delays = <<>>
    /\ toolres.propagated = ""
    /\ ~toolres.value.success
    /\ toolres.value.error_type = "ConfigurationError"
    /\ logged.error_category = "CONFIGURATION"

\* the backend answered without results and without an answer
EmptyResponse == BackendResponse(0, "absent")

(***************************************************************************)
(* C29: a backend response without results and without a summary ends the  *)
(* call: the body returns the "no results" payload for the topic, no       *)
(* invocation follows it, and the tool wrapper returns that payload as a   *)
(* success; when it answers the first invocation, the backend was invoked  *)
(* exactly once and nothing was retried.                                   *)
(***************************************************************************)
C29_EmptyResultIsNotAFailure ==
  \A i \in 1..Len(research.responses) :
    research.responses[i] = EmptyResponse =>
      /\ i = Len(research.responses)
      /\ research.backend = i
      /\ Len(outs) = i
      /\ outs[i].ok
      /\ suspending.pc = "done"
      /\ suspending.invocations = i
      /\ suspending.result = ReturnedValue(i)
      /\ Len(suspending.delays) = i - 1
      /\ research.value =
           ResultDict("no results", normalized_topic(research.topic), "", 0)
      /\ research.pc = "returned" =>
           /\ toolres.propagated = ""
           /\ toolres.value.success
           /\ toolres.value.error_type = ""
           /\ logged = NoLog

C29_Witness ==
  /\ research.pc = "returned"
  /\ research.responses = << EmptyResponse >>
  /\ research.backend = 1
  /\ suspending.invocations = 1
  /\ toolres.value.success

\* the categories of failure the research call retries
RetriedCategories == { "NETWORK", "EXTERNAL_SERVICE" }

(***************************************************************************)
(* C30: in a finished research call, an invocation that failed in category *)
(* NETWORK or EXTERNAL_SERVICE was followed by another invocation after a  *)
(* sleep of 1 and then 2 seconds unless it was the third, and a failure of *)
(* any other category was the last invocation of the call.                 *)
(***************************************************************************)
C30_TransientFailuresAreRetried ==
  research.pc = "returned" =>
    /\ Len(outs) <= 3
    /\ \A i \in 1..Len(outs) :
         ~outs[i].ok =>
           IF classify_exception(outs[i].exc) \in RetriedCategories
           THEN i < 3 => /\ Len(outs) > i
                         /\ Len(suspending.delays) >= i
                         /\ suspending.delays[i] = 2 ^ (i - 1)
           ELSE i = Len(outs)

\* the task of the suspending wrapper was cancelled and the wrapper raised CancelledError
CancellationPropagated ==
  suspending.cancelled # "" =>
    /\ suspending.pc = "done"
    /\ suspending.result.how = "raised"
    /\ suspending.result.exc.kind = "CancelledError"
    /\ suspending.cancelled = "await" =>
         /\ suspending.invocations >= 1
         /\ suspending.result = RaisedError(outs[suspending.invocations].exc)
         /\ Len(suspending.delays) = suspending.invocations - 1
    /\ suspending.cancelled = "sleep" => Len(suspending.delays) = suspending.invocations

(***************************************************************************)
(* C33: when the task of the suspending wrapper is cancelled while it      *)
(* awaits the operation or sleeps between two invocations, the wrapper     *)
(* ends by raising CancelledError, and from then on it invokes nothing and *)
(* starts no sleep: its run does not change any more.                      *)
(***************************************************************************)
C33_CancelledRunStops ==
  /\ []CancellationPropagated
  /\ [][suspending.cancelled # "" => suspending' = suspending]_vars

C33_Witness ==
  /\ suspending.cancelled = "sleep"
  /\ suspending.invocations = 2
  /\ suspending.delays = <<1, 2>>
  /\ rcfg.max_retries = 3
  /\ blocking.invocations = 4

\* a run ends with the first invocation that succeeds, and never invokes more than
\* max_retries + 1 times
EndsWithFirstSuccess(r) ==
  /\ rcfg.max_retries >= 0 => r.invocations <= rcfg.max_retries + 1
  /\ \A k \in 1..r.invocations :
       outs[k].ok =>
         /\ r.pc = "done"
         /\ r.invocations = k
         /\ Len(r.delays) = k - 1
         /\ r.result = ReturnedValue(k)
         /\ \A j \in 1..(k - 1) :
              ~outs[j].ok /\ Ancestors(outs[j].exc.kind) \cap rcfg.retry_exceptions # {}

BothDone == blocking.pc = "done" /\ suspending.pc = "done"

(***************************************************************************)
(* C35: for max_retries >= 0 both wrappers end; a run invokes the          *)
(* operation at most max_retries + 1 times; when invocation k is the first *)
(* to succeed the run returns its result after k invocations and k - 1     *)
(* sleeps; and a run that has ended invokes nothing and sleeps no more.    *)
(***************************************************************************)
C35_RetryTerminates ==
  /\ [](EndsWithFirstSuccess(blocking) /\ EndsWithFirstSuccess(suspending))
  /\ [][ /\ blocking.pc = "done" => blocking' = blocking
         /\ suspending.pc = "done" => suspending' = suspending ]_vars
  /\ (rcfg.max_retries >= 0) => <>BothDone

C35_Witness ==
  /\ BothDone
  /\ rcfg.max_retries = 3
  /\ suspending.invocations = 3
  /\ outs[3].ok
  /\ Len(suspending.delays) = 2
  /\ Len(blocking.delays) = 2

\* an exception of a class the decorator was not told to retry ends the run at once
UnmatchedErrorPropagates(r) ==
  \A n \in 1..r.invocations :
    (~outs[n].ok /\ Ancestors(outs[n].exc.kind) \cap rcfg.retry_exceptions = {}) =>
      /\ r.pc = "done"
      /\ r.invocations = n
      /\ r.result = RaisedError(outs[n].exc)
      /\ Len(r.delays) = n - 1

(***************************************************************************)
(* C36: an exception that is no instance of retry_exceptions is raised to  *)
(* the caller by the invocation that raised it: no sleep follows it and no *)
(* further invocation, under every policy and every max_retries >= 0.      *)
(***************************************************************************)
C36_UnmatchedErrorIsNotRetried ==
  UnmatchedErrorPropagates(blocking) /\ UnmatchedErrorPropagates(suspending)

C36_Witness ==
  /\ BothDone
  /\ rcfg.retry_policy = "IMMEDIATE"
  /\ rcfg.max_retries = 4
  /\ suspending.invocations = 2
  /\ outs[2].exc.kind = "ValidationError"
  /\ suspending.result = RaisedError(outs[2].exc)

\* a caught error that carries NO_RETRY is retried as the decorator's own policy says
RetriesDespiteErrorPolicy(r) ==
  \A n \in 1..r.invocations :
    ( /\ ~outs[n].ok
      /\ outs[n].exc.policy = "NO_RETRY"
      /\ Ancestors(outs[n].exc.kind) \cap rcfg.retry_exceptions # {}
      /\ rcfg.retry_policy # "NO_RETRY"
      /\ n <= rcfg.max_retries ) =>
        /\ Len(r.delays) >= n
        /\ r.delays[n] = DocumentedDelay(n)
        /\ r.pc = "done" => r.invocations > n

\* every invocation of the run raised an ExternalServiceError made with NO_RETRY
OnlyNoRetryErrors(r) ==
  /\ r.pc = "done"
  /\ \A n \in 1..r.invocations : outs[n] = FailureNoRetry(n)

(***************************************************************************)
(* C39: the retry_policy attribute of a caught error plays no part: an     *)
(* error that carries NO_RETRY and matches retry_exceptions is followed by *)
(* the sleep of the decorator's own policy and by another invocation while *)
(* retries are left; with the research tool's arguments, an operation that *)
(* always raises ExternalServiceError(retry_policy = NO_RETRY) is invoked  *)
(* 3 times with sleeps of 1 and 2 seconds.                                 *)
(***************************************************************************)
C39_ErrorPolicyIsIgnored ==
  /\ RetriesDespiteErrorPolicy(blocking)
  /\ RetriesDespiteErrorPolicy(suspending)
  /\ (rcfg = ResearchRetryConfig /\ OnlyNoRetryErrors(suspending)) =>
       /\ suspending.invocations = 3
       /\ suspending.delays = <<1, 2>>
       /\ suspending.result = RaisedError(outs[3].exc)

C39_Witness ==
  /\ rcfg = ResearchRetryConfig
  /\ OnlyNoRetryErrors(suspending)
  /\ suspending.invocations = 3
  /\ suspending.delays = <<1, 2>>

(***************************************************************************)
(* C40: with max_retries < 0 neither wrapper invokes the operation, and    *)
(* both end by returning None; with max_retries >= 0 a run that has ended  *)
(* has invoked the operation at least once.                                *)
(***************************************************************************)
C40_NegativeMaxRetriesInvokesNothing ==
  \A r \in {blocking, suspending} :
    /\ rcfg.max_retries < 0 =>
         /\ r.invocations = 0
         /\ r.delays = <<>>
         /\ r.pc = "done" => r.result = ReturnedNone
    /\ (rcfg.max_retries >= 0 /\ r.pc = "done") => r.invocations >= 1

C40_Witness ==
  /\ rcfg.max_retries < 0
  /\ BothDone
  /\ blocking.result = ReturnedNone
  /\ suspending.result = ReturnedNone
  /\ outs = <<>>

\* the errors of the class and with the explicit user message of e, under every
\* technical message
SameButTechnicalMessage(e) ==
  { NewError(e.kind, m, u, e.id) :
      m \in TechnicalMessages,
      u \in { v \in UserMessages :
                NewError(e.kind, e.msg,
                         IF "ITBPMethodError" \in Ancestors(e.kind) THEN v ELSE "", e.id) = e } }

\* a callback body that only raises e
RaisingBody(e) == [ write |-> <<>>, exc |-> e ]

(***************************************************************************)
(* C34: the error field of a tool's failure object, and the text the       *)
(* callback wrapper stores for the same exception, are the same for every  *)
(* exception of the same class and the same explicit user message,         *)
(* whatever its technical message.                                         *)
(***************************************************************************)
C34_UserMessageHidesTechnicalMessage ==
  (~toolres.op.ok /\ toolres.propagated = "") =>
    \A e \in SameButTechnicalMessage(toolres.op.exc) :
      /\ handle_tool_errors([ ok |-> FALSE, n |-> 1, exc |-> e ]).value.error
           = toolres.value.error
      /\ handle_callback_errors(RaisingBody(e), state, response).response
           = handle_callback_errors(RaisingBody(toolres.op.exc), state, response).response
      /\ handle_callback_errors(RaisingBody(e), state, response).response[2]
           = toolres.value.error

C34_Witness ==
  /\ ~toolres.op.ok
  /\ toolres.op.exc.kind = "RuntimeError"
  /\ toolres.op.exc.msg = "other technical message"
  /\ toolres.value.error = "An unexpected error occurred. Please try again later."
  /\ toolres.value.error_details = "other technical message"
  /\ Cardinality(SameButTechnicalMessage(toolres.op.exc)) = 3

DuplicateFree(q) == \A i, j \in 1..Len(q) : q[i] = q[j] => i = j

OverwritesInFull == cacheop.op = "set" /\ cacheop.held /\ cacheop.full

\* the time of the set, and the time at which the overwritten entry had been stored
SetAt == written[cacheop.key].at
OverwrittenAt == SetAt - cacheop.age

(***************************************************************************)
(* C38: a set of a key that is held, on a cache holding max_size entries,  *)
(* first removes the entry with the oldest time.  When that is the entry   *)
(* of the key itself the cache still holds max_size entries afterwards;    *)
(* when it is another entry, that entry is gone, expired or not, and the   *)
(* cache holds max_size - 1 entries.  The key holds the new value.         *)
(***************************************************************************)
C38_OverwriteInFullCacheEvicts ==
  OverwritesInFull =>
    /\ search_cache._cache[cacheop.key] = cacheop.value
    /\ TimestampOf(search_cache._timestamps, cacheop.key, -1) = SetAt
    /\ Cardinality(cacheop.evicted) <= 1
    /\ \A e \in cacheop.evicted :
         /\ e.key # cacheop.key
         /\ e.at <= OverwrittenAt
         /\ \A k \in Survivors : e.at <= written[k].at
         /\ Cardinality(DOMAIN search_cache._cache) = search_cache._max_size - 1
    /\ cacheop.evicted = {} =>
         /\ Cardinality(DOMAIN search_cache._cache) = search_cache._max_size
         /\ \A k \in Survivors : OverwrittenAt <= written[k].at

C38_Witness ==
  /\ OverwritesInFull
  /\ search_cache._max_size = 2
  /\ Cardinality(DOMAIN search_cache._cache) = 1
  /\ \E e \in cacheop.evicted :
       /\ e.key # cacheop.key
       /\ SetAt - e.at <= search_cache._ttl_seconds


(***************************************************************************)
(* The cache under several sessions.                                       *)
(***************************************************************************)
\* the key of the call of session s
SessionKey(s) == normalized_topic(sessions[s].topic)

\* the invocations of the backend for key by the sessions 1..n
RECURSIVE BackendInvocations(_, _)
BackendInvocations(key, n) ==
  IF n = 0 THEN 0
  ELSE BackendInvocations(key, n - 1)
         + (IF sessions[n].pc # "idle" /\ SessionKey(n) = key THEN sessions[n].searched ELSE 0)

\* the backend has raised in no call, and no more time than the time to live has
\* passed since the first call
NoFailureInOneWindow ==
  /\ \A s \in Sessions : ~sessions[s].failed
  /\ clock <= search_cache._ttl_seconds

\* C31: whatever the interleaving of the sessions' calls, as long as the backend has
\* not failed and all calls lie in one TTL window, the backend has been invoked at
\* most once for each normalized key
C31_BackendInvokedOncePerKey ==
  NoFailureInOneWindow =>
    \A s \in Sessions : sessions[s].pc # "idle" =>
      BackendInvocations(SessionKey(s), NumSessions) <= 1


\* the last cache call was a get that returned a value
GetReturnedValue == cacheop.op = "get" /\ cacheop.ret # NoValue

\* C32: under every interleaving of the sessions' gets and sets, the value map and
\* the timestamp map hold the same keys, the cache holds no more than max_size
\* entries, and a get returns nothing or the value a set stored for its key
C32_SharedCacheIsNotCorrupted ==
  /\ DOMAIN search_cache._cache = TimestampKeys(search_cache._timestamps)
  /\ Len(search_cache._timestamps) = Cardinality(DOMAIN search_cache._cache)
  /\ Cardinality(DOMAIN search_cache._cache) <= search_cache._max_size
  /\ GetReturnedValue =>
       /\ cacheop.key \in DOMAIN written
       /\ cacheop.ret = written[cacheop.key].value
       /\ cacheop.ret.topic = cacheop.key

\* one session's get returns what another session's set stored, while the cache is full
C32_Witness ==
  /\ GetReturnedValue
  /\ Cardinality(DOMAIN search_cache._cache) = search_cache._max_size
  /\ \E s, t \in Sessions :
       /\ s # t
       /\ sessions[s].pc = "returned" /\ sessions[s].searched = 0
       /\ sessions[t].pc = "returned" /\ sessions[t].searched >= 1
       /\ SessionKey(s) = cacheop.key /\ SessionKey(t) = cacheop.key

====
